---- MODULE Spec2Model ----
(***************************************************************************)
(* Box lifecycle engine of boxlite: the metadata store and its in-memory   *)
(* mirror (BoxManager), the runtime facade (create / get / remove /        *)
(* startup recovery), the lazy box handle (ensure_ready / stop / drop) and *)
(* the staged init pipeline with its cleanup guard.                        *)
(*                                                                         *)
(* One runtime process is modelled with one API operation in flight.  An   *)
(* operation is a sequence of steps (pc); every BoxManager mutation is two *)
(* steps, the store write and then the cache update (MgrCommit), so that   *)
(* the window between them is a state the process can crash in.            *)
(***************************************************************************)
EXTENDS Integers, FiniteSets, Sequences, TLC

\* ------------------------------------------------------------------ bounds
MaxBoxes == 1
MaxHandles == 1
MaxBuilds == 2
MaxFaults == 1
\* port numbers 1..MaxPort; at most MaxUserPorts user port mappings
MaxPort == 2
MaxUserPorts == 2
\* boxes in the registry that refresh_states walks
MaxRefreshBoxes == 2
\* bind mounts created
MaxMounts == 2
\* handles to one box and concurrent callers of ensure_ready on them
MaxBoxHandles == 2
MaxCallers == 2
\* stages of a pipeline and tasks of a stage
MaxStages == 2
MaxTasks == 2

BoxIds == 1..MaxBoxes
Handles == 1..MaxHandles
\* build k generates container id k and, if it spawns, its VMM gets pid k
Pids == 1..MaxBuilds
\* The BoxOptions / name pairs create is called with ("" stands for name = None)
Options == {[name |-> "", auto_remove |-> FALSE, isolate |-> FALSE],
            [name |-> "web", auto_remove |-> FALSE, isolate |-> TRUE],
            [name |-> "", auto_remove |-> TRUE, isolate |-> FALSE]}

VARIABLES
  pc,            \* position of the runtime process / of the operation in flight
  lock,          \* RuntimeLock on the home directory is held
  bootChanged,   \* the host rebooted since the boot epoch was last stored
  store,         \* BoxStore: BoxID -> persisted row (config + state)
  cache,         \* BoxManagerInner.boxes: BoxID -> CacheEntry
  mgr,           \* a BoxManager mutation between its store write and its cache update
  proc,          \* pid -> box whose VMM subprocess it is (0: no such process)
  dir,           \* box_home exists on disk
  disk,          \* root.qcow2 of the box (0: absent, else the build that created it)
  boxes_created, \* RuntimeMetricsStorage.boxes_created
  boxes_failed,  \* RuntimeMetricsStorage.boxes_failed
  handles,       \* LiteBox handles held by the caller
  cur,           \* locals of the operation in flight
  ret,           \* what the last finished operation returned
  second,        \* outcome of a Runtime::new attempted by a second process
  stoppedOk,     \* history: stop returned success on the initialized box
  nextId, nextBuild,
  faults,
  net,           \* build_network_config: its inputs and the port map it returned
  reg,           \* refresh_states: the registry it walks, the processes, its result
  mnt,           \* the bind mounts: implementation, handle, and the kernel's view
  cc,            \* concurrent ensure_ready: one box, its handles, the callers
  pl,            \* PipelineExecutor::execute on a pipeline of its own
  cr             \* concurrent Runtime::create: the registry and the callers

vars == <<pc, lock, bootChanged, store, cache, mgr, proc, dir, disk, boxes_created,
          boxes_failed, handles, cur, ret, second, stoppedOk, nextId, nextBuild, faults,
          net, reg, mnt, cc, pl, cr>>

\* the variables of the runtime process, and those of the components that are
\* specified on their own
rt_vars == <<pc, lock, bootChanged, store, cache, mgr, proc, dir, disk, boxes_created,
             boxes_failed, handles, cur, ret, second, stoppedOk, nextId, nextBuild,
             faults>>
aux == <<net, reg, mnt, cc, pl, cr>>

\* ------------------------------------------------------- BoxState / BoxStatus
NoRow == [status |-> "None", pid |-> 0, cid |-> 0, name |-> "",
          auto_remove |-> FALSE, isolate |-> FALSE]

Present(row) == row.status # "None"

\* BoxStatus::is_active
is_active(status) == status \in {"Starting", "Running"}

\* BoxStatus::can_stop
can_stop(status) == is_active(status)

\* BoxStatus::can_exec
can_exec(status) == status \in {"Starting", "Stopped", "Running"}

\* faulty variant: the box is born Running
new_row_running(name, auto_remove, isolate) ==
  [status |-> "Running", pid |-> 0, cid |-> 0, name |-> name,
   auto_remove |-> auto_remove, isolate |-> isolate]

\* BoxState::new + BoxConfig from init_box_variables
new_row(name, auto_remove, isolate) ==
  [status |-> "Starting", pid |-> 0, cid |-> 0, name |-> name,
   auto_remove |-> auto_remove, isolate |-> isolate]

\* BoxState::mark_crashed: the callers' comments say what it does ("This sets
\* status to Stopped", core.rs; "marked as Stopped", rt_impl.rs), a crashed box
\* keeping its disk and being restartable; the PID is cleared with it
mark_crashed_state(row) == [row EXCEPT !.status = "Stopped", !.pid = 0]

\* ------------------------------------------------------------------ BoxStore
store_save(st, id, row) == [st EXCEPT ![id] = row]
store_update_status(st, id, s) == [st EXCEPT ![id].status = s]
store_update_pid(st, id, p) == [st EXCEPT ![id].pid = p]
store_update_container_id(st, id, c) == [st EXCEPT ![id].cid = c]
store_mark_crashed(st, id) == [st EXCEPT ![id] = mark_crashed_state(st[id])]
store_delete(st, id) == [st EXCEPT ![id] = NoRow]
store_reset_active_boxes_after_reboot(st) ==
  [b \in BoxIds |-> IF is_active(st[b].status)
                    THEN [st[b] EXCEPT !.status = "Stopped", !.pid = 0]
                    ELSE st[b]]

\* ---------------------------------------------------------------- BoxManager
\* A manager method returns its result, the store after its store write, and the
\* cache update it still has to make (op "none": no update).
NoMgr == [op |-> "none", id |-> 0, row |-> NoRow]
Pending(op, id, row) == [op |-> op, id |-> id, row |-> row]
MgrRes(res, st, p) == [res |-> res, store |-> st, mgr |-> p]

\* faulty variant: the store accepts a name twice
name_taken_never(st, id, name) == FALSE

\* BoxStore::save fails on its `name UNIQUE NULL` column when another row has
\* the name ("" stands for NULL)
name_taken(st, id, name) ==
  /\ name # ""
  /\ \E b \in DOMAIN st \ {id} : Present(st[b]) /\ st[b].name = name

\* faulty variant: an existing entry is overwritten
register_overwriting(c, st, id, row, io_ok) ==
  IF ~io_ok \/ name_taken(st, id, row.name) THEN MgrRes("Database", st, NoMgr)
  ELSE MgrRes("Ok", store_save(st, id, row), Pending("register", id, row))

register(c, st, id, row, io_ok) ==
  IF Present(c[id]) THEN MgrRes("Internal", st, NoMgr)
  ELSE IF ~io_ok \/ name_taken(st, id, row.name) THEN MgrRes("Database", st, NoMgr)
  ELSE MgrRes("Ok", store_save(st, id, row), Pending("register", id, row))

\* faulty variant: the cache is updated although the store write failed
update_status_ignoring_error(c, st, id, new_status, io_ok) ==
  IF ~Present(c[id]) THEN MgrRes("Internal", st, NoMgr)
  ELSE IF ~io_ok \/ ~Present(st[id])
    THEN MgrRes("Database", st,
                Pending("update_status", id, [c[id] EXCEPT !.status = new_status]))
  ELSE MgrRes("Ok", store_update_status(st, id, new_status),
              Pending("update_status", id, [c[id] EXCEPT !.status = new_status]))

update_status(c, st, id, new_status, io_ok) ==
  IF ~Present(c[id]) THEN MgrRes("Internal", st, NoMgr)
  ELSE IF ~io_ok \/ ~Present(st[id]) THEN MgrRes("Database", st, NoMgr)
  ELSE MgrRes("Ok", store_update_status(st, id, new_status),
              Pending("update_status", id, [c[id] EXCEPT !.status = new_status]))

update_pid(c, st, id, pid, io_ok) ==
  IF ~Present(c[id]) THEN MgrRes("Internal", st, NoMgr)
  ELSE IF ~io_ok \/ ~Present(st[id]) THEN MgrRes("Database", st, NoMgr)
  ELSE MgrRes("Ok", store_update_pid(st, id, pid),
              Pending("update_pid", id, [c[id] EXCEPT !.pid = pid]))

\* a container ID text that ContainerId::parse rejects
Malformed == MaxBuilds + 1

\* the text is written to the store as given and parsed only for the cache
update_container_id(c, st, id, cid, io_ok) ==
  IF ~Present(c[id]) THEN MgrRes("Internal", st, NoMgr)
  ELSE IF ~io_ok \/ ~Present(st[id]) THEN MgrRes("Database", st, NoMgr)
  ELSE IF cid = Malformed
  THEN MgrRes("Internal", store_update_container_id(st, id, cid), NoMgr)
  ELSE MgrRes("Ok", store_update_container_id(st, id, cid),
              Pending("update_container_id", id, [c[id] EXCEPT !.cid = cid]))

\* faulty variant: the row stays in the store
remove_keeping_row(c, st, id, io_ok) ==
  IF ~Present(c[id]) \/ is_active(c[id].status) THEN MgrRes("Internal", st, NoMgr)
  ELSE IF ~io_ok \/ ~Present(st[id]) THEN MgrRes("Database", st, NoMgr)
  ELSE MgrRes("Ok", st, Pending("remove", id, NoRow))

remove(c, st, id, io_ok) ==
  IF ~Present(c[id]) \/ is_active(c[id].status) THEN MgrRes("Internal", st, NoMgr)
  ELSE IF ~io_ok \/ ~Present(st[id]) THEN MgrRes("Database", st, NoMgr)
  ELSE MgrRes("Ok", store_delete(st, id), Pending("remove", id, NoRow))

mark_crashed(c, st, id, io_ok) ==
  IF ~io_ok \/ ~Present(st[id]) THEN MgrRes("Database", st, NoMgr)
  ELSE MgrRes("Ok", store_mark_crashed(st, id),
              Pending("mark_crashed", id,
                      IF Present(c[id]) THEN mark_crashed_state(c[id]) ELSE NoRow))

\* BoxManager::get_by_name
get_by_name(c, name) == {b \in DOMAIN c : Present(c[b]) /\ c[b].name = name}

\* ------------------------------------------------------------ handles, locals
NoHandle == [box |-> 0, inner |-> 0, builder |-> "none", bpid |-> 0,
             is_shutdown |-> FALSE, stop_called |-> FALSE, auto_remove |-> FALSE]

\* LiteBox::new: the builder is kept iff the status allows exec; it holds a
\* snapshot of the state the handle was made from
new_handle(b, row) ==
  [box |-> b, inner |-> 0,
   builder |-> IF can_exec(row.status) THEN row.status ELSE "none",
   bpid |-> IF can_exec(row.status) THEN row.pid ELSE 0,
   is_shutdown |-> FALSE, stop_called |-> FALSE, auto_remove |-> row.auto_remove]

\* Locals of an operation; the fields from `pre` on are history taken at its start.
NoOp == [op |-> "none", res |-> "", h |-> 0, b |-> 0, force |-> FALSE,
         plan |-> "", armed |-> FALSE, layout |-> FALSE, handler |-> 0, build |-> 0,
         spid |-> 0, isolate |-> FALSE, stage |-> 0, done |-> {}, slots |-> {}, task |-> "", err |-> "",
         faulted |-> FALSE, signalled |-> FALSE, dir_failed |-> FALSE,
         from_stop |-> FALSE, handler_stopped |-> FALSE, had_inner |-> 0,
         stop_called |-> FALSE, dup |-> 0,
         pre |-> NoRow, prestore |-> NoRow, pre_failed |-> 0, pre_created |-> 0,
         was_stopped |-> FALSE, pre_disk |-> 0, ids |-> {},
         rows |-> <<>>, same |-> {}, rebooted |-> FALSE, disks |-> <<>>,
         hist |-> <<>>, absolute |-> TRUE, rb |-> <<>>]

NoSecond == [res |-> "none", recovered |-> FALSE, changed |-> FALSE, back |-> ""]

IoChoices == IF faults < MaxFaults THEN {TRUE, FALSE} ELSE {TRUE}
Spend(ok) == IF ok THEN faults ELSE faults + 1

FreeHandles == {h \in Handles : handles[h].box = 0}
FreeHandle == CHOOSE h \in FreeHandles : \A g \in FreeHandles : h <= g

Registered == {b \in BoxIds : Present(store[b]) \/ Present(cache[b])}

\* ---------------------------------------------------------------------- Init
InitRuntime ==
  /\ pc = "down"
  /\ lock = FALSE
  /\ bootChanged = FALSE
  /\ store = [b \in BoxIds |-> NoRow]
  /\ cache = [b \in BoxIds |-> NoRow]
  /\ mgr = NoMgr
  /\ proc = [p \in Pids |-> 0]
  /\ dir = [b \in BoxIds |-> FALSE]
  /\ disk = [b \in BoxIds |-> 0]
  /\ boxes_created = 0
  /\ boxes_failed = 0
  /\ handles = [h \in Handles |-> NoHandle]
  /\ cur = NoOp
  /\ ret = NoOp
  /\ second = NoSecond
  /\ stoppedOk = [b \in BoxIds |-> FALSE]
  /\ nextId = 1
  /\ nextBuild = 1
  /\ faults = 0

\* ----------------------------------------------------------- runtime startup
\* faulty variant: the lock is not consulted
new_passes_lock_unchecked(held) == TRUE

\* RuntimeInnerImpl::new up to RuntimeLock::acquire: does construction go on?
new_passes_lock(held) == ~held

\* BoxManager::check_and_handle_reboot
\* faulty variant: a reboot resets nothing
check_and_handle_reboot_ignored(st, reboot) == st

check_and_handle_reboot(st, reboot) ==
  IF reboot THEN store_reset_active_boxes_after_reboot(st) ELSE st

\* what a process table entry holds when the process is no VMM of any box
Foreign == MaxBoxes + 1

\* is_process_alive: kill(pid, 0) succeeds
is_process_alive(pr, pid) == pr[pid] # 0

\* is_process_alive(pid) && is_same_process(pid, box_id): the command line
\* names the VMM binary and this box
alive_and_same(pr, pid, id) == pid # 0 /\ is_process_alive(pr, pid) /\ pr[pid] = id

\* faulty variant: a recorded PID is trusted without looking at the process
recover_state_trusting_pid(row, same) ==
  IF row.pid # 0 THEN row
  ELSE IF row.status \in {"Running", "Starting"} THEN [row EXCEPT !.status = "Stopped"]
  ELSE row

\* the per-row classification of recover_boxes
recover_state(row, same) ==
  IF row.pid # 0
    THEN IF same THEN row
         ELSE IF is_active(row.status) THEN mark_crashed_state(row) ELSE row
  ELSE IF row.status \in {"Running", "Starting"} THEN [row EXCEPT !.status = "Stopped"]
  ELSE row

\* recover_boxes: the cache built by register_recovered from the loaded rows
recover_boxes(st, pr) ==
  [b \in BoxIds |-> IF Present(st[b])
                    THEN recover_state(st[b], alive_and_same(pr, st[b].pid, b))
                    ELSE NoRow]

\* Runtime::new, "validate early": the error for a home_dir that is not absolute
validate_home_dir(absolute) == IF absolute THEN "" ELSE "Internal"

\* Runtime::new, first half: the home_dir check, then layout.prepare, lock,
\* database open
RuntimeNew(absolute) ==
  /\ pc = "down"
  /\ IF validate_home_dir(absolute) # ""
     THEN /\ ret' = [NoOp EXCEPT !.op = "new", !.absolute = FALSE,
                                 !.res = validate_home_dir(absolute)]
          /\ UNCHANGED <<pc, lock>>
     ELSE /\ new_passes_lock(lock)
          /\ lock' = TRUE
          /\ pc' = "recover"
          /\ UNCHANGED ret
  /\ UNCHANGED <<bootChanged, store, cache, mgr, proc, dir, disk, boxes_created,
                 boxes_failed, handles, cur, second, stoppedOk, nextId, nextBuild, faults>>
  /\ UNCHANGED aux

\* Runtime::new, second half: recover_boxes
RuntimeRecover ==
  /\ pc = "recover"
  /\ store' = check_and_handle_reboot(store, bootChanged)
  /\ bootChanged' = FALSE
  /\ cache' = recover_boxes(store', proc)
  /\ pc' = "idle"
  /\ ret' = [NoOp EXCEPT !.op = "new", !.res = "Ok", !.rows = store,
                         !.same = {b \in BoxIds : alive_and_same(proc, store[b].pid, b)},
                         !.rebooted = bootChanged, !.disks = disk]
  /\ UNCHANGED <<lock, mgr, proc, dir, disk, boxes_created, boxes_failed, handles,
                 cur, second, stoppedOk, nextId, nextBuild, faults>>
  /\ UNCHANGED aux

\* A second process calls Runtime::new on the same home while the first is
\* starting up or between operations; `second` holds what it got and did until
\* it has exited (SecondExit).
SecondRuntimeNew ==
  /\ pc \in {"recover", "idle"} /\ mgr = NoMgr
  /\ LET pass == new_passes_lock(lock)
         st == IF pass THEN check_and_handle_reboot(store, bootChanged) ELSE store
     IN /\ second' = [res |-> IF pass THEN "Ok" ELSE "Internal",
                      recovered |-> pass,
                      changed |-> (st # store \/ (pass /\ bootChanged)),
                      back |-> pc]
        /\ store' = st
        /\ bootChanged' = IF pass THEN FALSE ELSE bootChanged
  /\ pc' = "second"
  /\ UNCHANGED <<lock, cache, mgr, proc, dir, disk, boxes_created, boxes_failed,
                 handles, cur, ret, stoppedOk, nextId, nextBuild, faults>>
  /\ UNCHANGED aux

SecondExit ==
  /\ pc = "second"
  /\ pc' = second.back
  /\ second' = NoSecond
  /\ UNCHANGED <<lock, bootChanged, store, cache, mgr, proc, dir, disk, boxes_created,
                 boxes_failed, handles, cur, ret, stoppedOk, nextId, nextBuild, faults>>
  /\ UNCHANGED aux

\* The runtime process exits (or is killed) at any point: memory is lost, the
\* lock is released, the store, the disks and the VMM subprocesses stay.
Crash ==
  /\ pc # "down"
  /\ pc' = "down"
  /\ lock' = FALSE
  /\ cache' = [b \in BoxIds |-> NoRow]
  /\ mgr' = NoMgr
  /\ handles' = [h \in Handles |-> NoHandle]
  /\ cur' = NoOp
  /\ ret' = NoOp
  /\ second' = NoSecond
  /\ stoppedOk' = [b \in BoxIds |-> FALSE]
  /\ boxes_created' = 0
  /\ boxes_failed' = 0
  /\ UNCHANGED <<bootChanged, store, proc, dir, disk, nextId, nextBuild,
                 faults>>
  /\ UNCHANGED aux

\* The host reboots: every process dies and the boot epoch changes.
HostReboot ==
  /\ pc' = "down"
  /\ lock' = FALSE
  /\ bootChanged' = TRUE
  /\ proc' = [p \in Pids |-> 0]
  /\ cache' = [b \in BoxIds |-> NoRow]
  /\ mgr' = NoMgr
  /\ handles' = [h \in Handles |-> NoHandle]
  /\ cur' = NoOp
  /\ ret' = NoOp
  /\ second' = NoSecond
  /\ stoppedOk' = [b \in BoxIds |-> FALSE]
  /\ boxes_created' = 0
  /\ boxes_failed' = 0
  /\ UNCHANGED <<store, dir, disk, nextId, nextBuild, faults>>
  /\ UNCHANGED aux

\* The PID of a dead VMM, still recorded for a box, is given by the host to a
\* process that is not a VMM of any box (PID reuse).
PidReused(p) ==
  /\ pc \in {"idle", "down"}
  /\ proc[p] = 0
  /\ \E b \in BoxIds : store[b].pid = p \/ cache[b].pid = p
  /\ proc' = [proc EXCEPT ![p] = Foreign]
  /\ UNCHANGED <<pc, lock, bootChanged, store, cache, mgr, dir, disk, boxes_created,
                 boxes_failed, handles, cur, ret, second, stoppedOk, nextId, nextBuild, faults>>
  /\ UNCHANGED aux

\* A VMM subprocess dies on its own (observed between operations).
VmmDies(p) ==
  /\ proc[p] # 0
  /\ pc \in {"idle", "down"}
  /\ proc' = [proc EXCEPT ![p] = 0]
  /\ UNCHANGED <<pc, lock, bootChanged, store, cache, mgr, dir, disk, boxes_created,
                 boxes_failed, handles, cur, ret, second, stoppedOk, nextId, nextBuild, faults>>
  /\ UNCHANGED aux

\* The cache half of a BoxManager mutation, after its store write.
MgrCommit ==
  /\ mgr # NoMgr
  /\ cache' = [cache EXCEPT ![mgr.id] = mgr.row]
  /\ mgr' = NoMgr
  /\ UNCHANGED <<pc, lock, bootChanged, store, proc, dir, disk, boxes_created,
                 boxes_failed, handles, cur, ret, second, stoppedOk, nextId, nextBuild, faults>>
  /\ UNCHANGED aux

\* ------------------------------------------------------------- create and get
\* faulty variant: the duplicate name is refused with the wrong error kind
create_check_internal(c, name) ==
  IF name # "" /\ get_by_name(c, name) # {} THEN "Internal" ELSE ""

\* RuntimeInnerImpl::create, name validation: the error returned, "" if none
create_check(c, name) ==
  IF name # "" /\ get_by_name(c, name) # {} THEN "InvalidArgument" ELSE ""

\* RuntimeInnerImpl::create up to box_manager.register.  History: dup is the
\* registered box that already has the name (0 if none), pre / prestore its rows.
Create(name, auto_remove, isolate, io_ok) ==
  /\ pc = "idle" /\ mgr = NoMgr
  /\ io_ok \in IoChoices
  /\ LET same == {b \in BoxIds : name # "" /\ Present(cache[b]) /\ cache[b].name = name}
         e == IF same = {} THEN 0 ELSE CHOOSE b \in same : TRUE
         op == [NoOp EXCEPT !.op = "create", !.pre_created = boxes_created,
                            !.ids = Registered, !.faulted = ~io_ok, !.dup = e,
                            !.pre = IF e = 0 THEN NoRow ELSE cache[e],
                            !.prestore = IF e = 0 THEN NoRow ELSE store[e]]
     IN IF create_check(cache, name) # ""
        THEN /\ io_ok
             /\ ret' = [op EXCEPT !.res = create_check(cache, name)]
             /\ UNCHANGED <<pc, store, mgr, cur, nextId, faults>>
        ELSE /\ nextId <= MaxBoxes
             /\ FreeHandles # {}
             /\ LET r == register(cache, store, nextId,
                                  new_row(name, auto_remove, isolate), io_ok)
                IN /\ store' = r.store
                   /\ mgr' = r.mgr
                   /\ faults' = Spend(io_ok)
                   /\ IF r.res = "Ok"
                      THEN /\ pc' = "create_done"
                           /\ cur' = [op EXCEPT !.b = nextId, !.h = FreeHandle]
                           /\ nextId' = nextId + 1
                           /\ ret' = NoOp
                      ELSE /\ ret' = [op EXCEPT !.res = r.res]
                           /\ UNCHANGED <<pc, cur, nextId>>
  /\ UNCHANGED <<lock, bootChanged, cache, proc, dir, disk, boxes_created,
                 boxes_failed, handles, second, stoppedOk, nextBuild>>
  /\ UNCHANGED aux

\* RuntimeInnerImpl::create after register: the counter and LiteBox::new
CreateDone ==
  /\ pc = "create_done" /\ mgr = NoMgr
  /\ boxes_created' = boxes_created + 1
  /\ handles' = [handles EXCEPT ![cur.h] = new_handle(cur.b, cache[cur.b])]
  /\ ret' = [cur EXCEPT !.res = "Ok"]
  /\ cur' = NoOp
  /\ pc' = "idle"
  /\ UNCHANGED <<lock, bootChanged, store, cache, mgr, proc, dir, disk, boxes_failed,
                 second, stoppedOk, nextId, nextBuild, faults>>
  /\ UNCHANGED aux

\* RuntimeInnerImpl::get
Get(b) ==
  /\ pc = "idle" /\ mgr = NoMgr
  /\ Present(cache[b])
  /\ FreeHandles # {}
  /\ handles' = [handles EXCEPT ![FreeHandle] = new_handle(b, cache[b])]
  /\ ret' = [NoOp EXCEPT !.op = "get", !.res = "Ok", !.b = b, !.h = FreeHandle]
  /\ UNCHANGED <<pc, lock, bootChanged, store, cache, mgr, proc, dir, disk,
                 boxes_created, boxes_failed, cur, second, stoppedOk, nextId, nextBuild, faults>>
  /\ UNCHANGED aux

\* ----------------------------------------------------- ensure_ready (exec)
\* faulty variant: the filesystem task shares a parallel stage with the rootfs
\* tasks
get_execution_plan_one_stage(status) ==
  IF status \in {"Starting", "Stopped"}
  THEN <<{"filesystem_setup", "container_rootfs_prep", "guest_rootfs_init"},
         {"vmm_spawn"}, {"guest_connect"}, {"guest_init"}>>
  ELSE <<{"vmm_attach"}, {"guest_connect"}>>

\* get_execution_plan: the stages of the plan chosen by the builder's status
get_execution_plan(status) ==
  IF status \in {"Starting", "Stopped"}
  THEN <<{"filesystem_setup"}, {"container_rootfs_prep", "guest_rootfs_init"},
         {"vmm_spawn"}, {"guest_connect"}, {"guest_init"}>>
  ELSE <<{"vmm_attach"}, {"guest_connect"}>>

\* InitPipelineContext::should_reuse_rootfs
should_reuse_rootfs(status) == status = "Stopped"

ExecOp(h) ==
  [NoOp EXCEPT !.op = "exec", !.h = h, !.b = handles[h].box,
               !.pre_failed = boxes_failed, !.was_stopped = stoppedOk[handles[h].box],
               !.pre_disk = disk[handles[h].box]]

\* ensure_ready, fast path: the handle already has a live value
ExecLive(h) ==
  /\ pc = "idle" /\ mgr = NoMgr
  /\ handles[h].box # 0
  /\ handles[h].inner # 0
  /\ ret' = [ExecOp(h) EXCEPT !.res = "Ok", !.plan = "live"]
  /\ stoppedOk' = [stoppedOk EXCEPT ![handles[h].box] = FALSE]
  /\ UNCHANGED <<pc, lock, bootChanged, store, cache, mgr, proc, dir, disk,
                 boxes_created, boxes_failed, handles, cur, second, nextId, nextBuild,
                 faults>>
  /\ UNCHANGED aux

\* ensure_ready / init_from_builder: the error returned without building, ""
\* if there is none
ensure_ready_refusal(row, builder) ==
  IF ~Present(row) THEN "NotFound"
  ELSE IF row.status \in {"Starting", "Stopped"}
       THEN (IF builder = "none" THEN "Internal" ELSE "")
  ELSE IF row.status = "Running" THEN ""
  ELSE "InvalidState"

\* ensure_ready returning an error before any initialization
ExecRefused(h) ==
  /\ pc = "idle" /\ mgr = NoMgr
  /\ handles[h].box # 0
  /\ handles[h].inner = 0
  /\ ensure_ready_refusal(cache[handles[h].box], handles[h].builder) # ""
  /\ ret' = [ExecOp(h) EXCEPT
               !.res = ensure_ready_refusal(cache[handles[h].box], handles[h].builder),
               !.plan = "refused"]
  /\ stoppedOk' = [stoppedOk EXCEPT ![handles[h].box] = FALSE]
  /\ UNCHANGED <<pc, lock, bootChanged, store, cache, mgr, proc, dir, disk,
                 boxes_created, boxes_failed, handles, cur, second, nextId, nextBuild,
                 faults>>
  /\ UNCHANGED aux

\* ensure_ready -> init_from_builder -> BoxBuilder::build up to the pipeline:
\* the builder is taken, the plan and the guard follow the builder's snapshot
ExecBuild(h) ==
  /\ pc = "idle" /\ mgr = NoMgr
  /\ handles[h].box # 0
  /\ handles[h].inner = 0
  /\ cache[handles[h].box].status \in {"Starting", "Stopped"}
  /\ handles[h].builder # "none"
  /\ LET snap == handles[h].builder
         fresh == snap \in {"Starting", "Stopped"}
     IN /\ fresh => nextBuild <= MaxBuilds
        /\ cur' = [ExecOp(h) EXCEPT !.plan = snap, !.armed = (snap = "Starting"),
                                    !.build = IF fresh THEN nextBuild ELSE 0,
                                    !.spid = handles[h].bpid, !.stage = 1,
                                    !.isolate = cache[handles[h].box].isolate]
        /\ nextBuild' = IF fresh THEN nextBuild + 1 ELSE nextBuild
  /\ handles' = [handles EXCEPT ![h].builder = "none", ![h].bpid = 0]
  /\ stoppedOk' = [stoppedOk EXCEPT ![handles[h].box] = FALSE]
  /\ pc' = "pipeline"
  /\ ret' = NoOp
  /\ UNCHANGED <<lock, bootChanged, store, cache, mgr, proc, dir, disk, boxes_created,
                 boxes_failed, second, nextId, faults>>
  /\ UNCHANGED aux

\* ensure_ready -> reattach_to_running
ExecReattach(h, io_ok) ==
  /\ pc = "idle" /\ mgr = NoMgr
  /\ handles[h].box # 0
  /\ handles[h].inner = 0
  /\ cache[handles[h].box].status = "Running"
  /\ LET b == handles[h].box
         row == cache[b]
         op == [ExecOp(h) EXCEPT !.plan = "reattach", !.faulted = ~io_ok,
                                 !.same = {x \in {b} : alive_and_same(proc, row.pid, x)}]
     IN IF row.pid = 0
        THEN /\ io_ok
             /\ ret' = [op EXCEPT !.res = "InvalidState"]
             /\ UNCHANGED <<store, mgr, handles, faults>>
        ELSE IF ~is_process_alive(proc, row.pid)
        THEN LET r == mark_crashed(cache, store, b, io_ok)
             IN /\ store' = r.store
                /\ mgr' = r.mgr
                /\ faults' = Spend(io_ok)
                /\ ret' = [op EXCEPT !.res = "InvalidState", !.task = "dead"]
                /\ UNCHANGED handles
        ELSE /\ io_ok
             /\ IF row.cid = 0
                THEN /\ ret' = [op EXCEPT !.res = "InvalidState", !.task = "reconnect"]
                     /\ UNCHANGED handles
                ELSE /\ ret' = [op EXCEPT !.res = "Ok"]
                     /\ handles' = [handles EXCEPT ![h].inner = row.pid]
             /\ UNCHANGED <<store, mgr, faults>>
  /\ stoppedOk' = [stoppedOk EXCEPT ![handles[h].box] = FALSE]
  /\ UNCHANGED <<pc, lock, bootChanged, cache, proc, dir, disk, boxes_created,
                 boxes_failed, cur, second, nextId, nextBuild>>
  /\ UNCHANGED aux

\* ------------------------------------------------------------- init pipeline
\* faulty variant: no task checks its inputs
required_slots_unchecked(task) == {}

\* the context slots a task takes before it does anything else; an empty one
\* makes it return BoxliteError::Internal
required_slots(task) ==
  CASE task = "container_rootfs_prep" -> {"fs_output"}
    [] task = "vmm_spawn" -> {"fs_output", "rootfs_output", "guest_rootfs_output"}
    [] task = "guest_init" -> {"guest_session", "config_output", "container_config"}
    [] OTHER -> {}

Runnable(task) ==
  /\ pc = "pipeline" /\ mgr = NoMgr
  /\ cur.stage <= Len(get_execution_plan(cur.plan))
  /\ task \in get_execution_plan(cur.plan)[cur.stage] \ cur.done

\* PipelineExecutor::execute: a task of the current stage finished; the next
\* stage starts when all tasks of the stage have
Advance(c, task) ==
  IF c.done \cup {task} = get_execution_plan(c.plan)[c.stage]
  THEN [c EXCEPT !.stage = c.stage + 1, !.done = {}, !.hist = Append(@, task)]
  ELSE [c EXCEPT !.done = c.done \cup {task}, !.hist = Append(@, task)]

\* A task returned an error: the pipeline stops (peers of a parallel stage are
\* dropped), build returns it and the context with its guard is dropped.
TaskFails(c, task, err) ==
  IF c.armed
  THEN /\ pc' = "guard_drop"
       /\ cur' = [c EXCEPT !.task = task, !.err = err, !.hist = <<>>]
       /\ UNCHANGED ret
  ELSE /\ pc' = "idle"
       /\ cur' = NoOp
       /\ ret' = [c EXCEPT !.task = task, !.err = err, !.res = err, !.hist = <<>>]

TaskSucceeds(c, task) ==
  /\ pc' = "pipeline"
  /\ cur' = Advance(c, task)
  /\ UNCHANGED ret

\* FilesystemTask: layout.prepare, then the bind mount if isolate_mounts; the
\* layout is registered with the guard only after both succeeded
TaskFilesystem(outcome) ==
  /\ Runnable("filesystem_setup")
  /\ outcome \in {"ok", "prepare_failed", "bind_mount_failed"}
  /\ outcome = "bind_mount_failed" => cur.isolate
  /\ outcome # "ok" => faults < MaxFaults
  /\ faults' = IF outcome = "ok" THEN faults ELSE faults + 1
  /\ dir' = IF outcome = "prepare_failed" THEN dir ELSE [dir EXCEPT ![cur.b] = TRUE]
  /\ IF outcome = "ok"
     THEN TaskSucceeds([cur EXCEPT !.layout = TRUE, !.slots = @ \cup {"fs_output"}],
                       "filesystem_setup")
     ELSE TaskFails([cur EXCEPT !.faulted = TRUE], "filesystem_setup", "Storage")
  /\ UNCHANGED <<lock, bootChanged, store, cache, mgr, proc, disk, boxes_created,
                 boxes_failed, handles, second, stoppedOk, nextId, nextBuild>>
  /\ UNCHANGED aux

\* ContainerRootfsTask: a restart opens the existing COW disk and fails if it is
\* missing; a fresh start creates it (and may still fail after having created it)
TaskContainerRootfs(outcome) ==
  /\ Runnable("container_rootfs_prep")
  /\ outcome \in {"ok", "failed", "failed_after_disk"}
  /\ IF ~(required_slots("container_rootfs_prep") \subseteq cur.slots)
     THEN /\ outcome = "failed"
          /\ TaskFails(cur, "container_rootfs_prep", "Internal")
          /\ UNCHANGED <<disk, faults>>
     ELSE IF should_reuse_rootfs(cur.plan) /\ disk[cur.b] = 0
     THEN /\ outcome = "failed"
          /\ TaskFails(cur, "container_rootfs_prep", "Storage")
          /\ UNCHANGED <<disk, faults>>
     ELSE /\ outcome = "failed_after_disk" => ~should_reuse_rootfs(cur.plan)
          /\ outcome # "ok" => faults < MaxFaults
          /\ faults' = IF outcome = "ok" THEN faults ELSE faults + 1
          /\ disk' = IF should_reuse_rootfs(cur.plan) \/ outcome = "failed"
                     THEN disk ELSE [disk EXCEPT ![cur.b] = cur.build]
          /\ IF outcome = "ok"
             THEN TaskSucceeds([cur EXCEPT !.slots = @ \cup {"rootfs_output"}],
                               "container_rootfs_prep")
             ELSE TaskFails([cur EXCEPT !.faulted = TRUE], "container_rootfs_prep",
                            "Storage")
  /\ UNCHANGED <<lock, bootChanged, store, cache, mgr, proc, dir, boxes_created,
                 boxes_failed, handles, second, stoppedOk, nextId, nextBuild>>
  /\ UNCHANGED aux

\* GuestRootfsTask
TaskGuestRootfs(ok) ==
  /\ Runnable("guest_rootfs_init")
  /\ ~ok => faults < MaxFaults
  /\ faults' = Spend(ok)
  /\ IF ok
     THEN TaskSucceeds([cur EXCEPT !.slots = @ \cup {"guest_rootfs_output"}],
                       "guest_rootfs_init")
     ELSE TaskFails([cur EXCEPT !.faulted = TRUE], "guest_rootfs_init", "Storage")
  /\ UNCHANGED <<lock, bootChanged, store, cache, mgr, proc, dir, disk, boxes_created,
                 boxes_failed, handles, second, stoppedOk, nextId, nextBuild>>
  /\ UNCHANGED aux

\* VmmSpawnTask up to spawn_vm: take the inputs, build the config, spawn
TaskVmmSpawn(ok) ==
  /\ Runnable("vmm_spawn")
  /\ IF ~(required_slots("vmm_spawn") \subseteq cur.slots)
     THEN /\ ~ok
          /\ TaskFails(cur, "vmm_spawn", "Internal")
          /\ UNCHANGED <<proc, faults>>
     ELSE /\ ~ok => faults < MaxFaults
          /\ faults' = Spend(ok)
          /\ IF ok
             THEN /\ proc' = [proc EXCEPT ![cur.build] = cur.b]
                  /\ cur' = [cur EXCEPT !.slots = (@ \ {"rootfs_output",
                                          "guest_rootfs_output"}) \cup {"container_config"}]
                  /\ pc' = "spawn_pid"
                  /\ UNCHANGED ret
             ELSE /\ TaskFails([cur EXCEPT !.faulted = TRUE], "vmm_spawn", "Engine")
                  /\ UNCHANGED proc
  /\ UNCHANGED <<lock, bootChanged, store, cache, mgr, dir, disk, boxes_created,
                 boxes_failed, handles, second, stoppedOk, nextId, nextBuild>>
  /\ UNCHANGED aux

\* VmmSpawnTask: update_pid(Some(pid)), its result ignored
SpawnUpdatePid(io_ok) ==
  /\ pc = "spawn_pid" /\ mgr = NoMgr
  /\ io_ok \in IoChoices
  /\ LET r == update_pid(cache, store, cur.b, cur.build, io_ok)
     IN /\ store' = r.store
        /\ mgr' = r.mgr
  /\ faults' = Spend(io_ok)
  /\ cur' = [cur EXCEPT !.faulted = @ \/ ~io_ok]
  /\ pc' = "spawn_status"
  /\ UNCHANGED <<lock, bootChanged, cache, proc, dir, disk, boxes_created,
                 boxes_failed, handles, ret, second, stoppedOk, nextId, nextBuild>>
  /\ UNCHANGED aux

\* VmmSpawnTask: update_status(Running), its result ignored; then the handler is
\* registered with the guard and the task returns
SpawnUpdateStatus(io_ok) ==
  /\ pc = "spawn_status" /\ mgr = NoMgr
  /\ io_ok \in IoChoices
  /\ LET r == update_status(cache, store, cur.b, "Running", io_ok)
     IN /\ store' = r.store
        /\ mgr' = r.mgr
  /\ faults' = Spend(io_ok)
  /\ cur' = Advance([cur EXCEPT !.faulted = @ \/ ~io_ok, !.handler = cur.build,
                                !.slots = @ \cup {"config_output"}], "vmm_spawn")
  /\ pc' = "pipeline"
  /\ UNCHANGED <<lock, bootChanged, cache, proc, dir, disk, boxes_created,
                 boxes_failed, handles, ret, second, stoppedOk, nextId, nextBuild>>
  /\ UNCHANGED aux

\* VmmAttachTask: the pid of the builder's snapshot, checked for liveness only
TaskVmmAttach ==
  /\ Runnable("vmm_attach")
  /\ IF cur.spid = 0 \/ ~is_process_alive(proc, cur.spid)
     THEN TaskFails(cur, "vmm_attach", "InvalidState")
     ELSE TaskSucceeds([cur EXCEPT !.handler = cur.spid], "vmm_attach")
  /\ UNCHANGED <<lock, bootChanged, store, cache, mgr, proc, dir, disk, boxes_created,
                 boxes_failed, handles, second, stoppedOk, nextId, nextBuild, faults>>
  /\ UNCHANGED aux

\* GuestConnectTask
TaskGuestConnect(ok) ==
  /\ Runnable("guest_connect")
  /\ ~ok => faults < MaxFaults
  /\ faults' = Spend(ok)
  /\ IF ok
     THEN TaskSucceeds([cur EXCEPT !.slots = @ \cup {"guest_session"}], "guest_connect")
     ELSE TaskFails([cur EXCEPT !.faulted = TRUE], "guest_connect", "Engine")
  /\ UNCHANGED <<lock, bootChanged, store, cache, mgr, proc, dir, disk, boxes_created,
                 boxes_failed, handles, second, stoppedOk, nextId, nextBuild>>
  /\ UNCHANGED aux

\* GuestInitTask
TaskGuestInit(ok) ==
  /\ Runnable("guest_init")
  /\ IF ~(required_slots("guest_init") \subseteq cur.slots)
     THEN /\ ~ok
          /\ TaskFails(cur, "guest_init", "Internal")
          /\ UNCHANGED faults
     ELSE /\ ~ok => faults < MaxFaults
          /\ faults' = Spend(ok)
          /\ IF ok
             THEN TaskSucceeds([cur EXCEPT !.slots = (@ \ {"guest_session"})
                                                      \cup {"guest_output"}],
                               "guest_init")
             ELSE TaskFails([cur EXCEPT !.faulted = TRUE,
                                        !.slots = @ \ {"guest_session", "config_output"}],
                            "guest_init", "Engine")
  /\ UNCHANGED <<lock, bootChanged, store, cache, mgr, proc, dir, disk, boxes_created,
                 boxes_failed, handles, second, stoppedOk, nextId, nextBuild>>
  /\ UNCHANGED aux

\* BoxBuilder::build after the pipeline: take the handler, disarm the guard, take
\* the guest output, persist the container id (result ignored)
BuildFinish(io_ok) ==
  /\ pc = "pipeline" /\ mgr = NoMgr
  /\ cur.stage > Len(get_execution_plan(cur.plan))
  /\ io_ok \in IoChoices
  /\ IF cur.handler = 0
     THEN /\ io_ok
          /\ TaskFails(cur, "take_handler", "Internal")
          /\ UNCHANGED <<store, mgr, faults>>
     ELSE IF "guest_output" \notin cur.slots
     THEN /\ io_ok
          /\ TaskFails([cur EXCEPT !.armed = FALSE], "guest_output", "Internal")
          /\ UNCHANGED <<store, mgr, faults>>
     ELSE LET r == update_container_id(cache, store, cur.b, cur.build, io_ok)
          IN /\ store' = r.store
             /\ mgr' = r.mgr
             /\ faults' = Spend(io_ok)
             /\ cur' = [cur EXCEPT !.armed = FALSE, !.faulted = @ \/ ~io_ok,
                                    !.hist = <<>>]
             /\ pc' = "build_done"
             /\ UNCHANGED ret
  /\ UNCHANGED <<lock, bootChanged, cache, proc, dir, disk, boxes_created,
                 boxes_failed, handles, second, stoppedOk, nextId, nextBuild>>
  /\ UNCHANGED aux

\* init_from_builder: the built value is published in the handle
BuildDone ==
  /\ pc = "build_done" /\ mgr = NoMgr
  /\ handles' = [handles EXCEPT ![cur.h].inner = cur.handler]
  /\ ret' = [cur EXCEPT !.res = "Ok"]
  /\ cur' = NoOp
  /\ pc' = "idle"
  /\ UNCHANGED <<lock, bootChanged, store, cache, mgr, proc, dir, disk, boxes_created,
                 boxes_failed, second, stoppedOk, nextId, nextBuild, faults>>
  /\ UNCHANGED aux

\* ------------------------------------------------------------- cleanup guard
\* faulty variant: the first failed step ends the rollback
drop_aborts_on_error(steps) == \A i \in DOMAIN steps : steps[i][2]

\* CleanupGuard::drop: a failed step is logged (or ignored) and the next step
\* runs whatever the steps before it returned
drop_goes_on(steps) == TRUE

\* CleanupGuard::drop, armed: stop the handler if registered, clean the layout
\* if registered, mark_crashed (result ignored); rb is the list of the steps
\* attempted and whether each succeeded
GuardDrop(stop_ok, clean_ok, io_ok) ==
  /\ pc = "guard_drop" /\ mgr = NoMgr
  /\ cur.handler = 0 => stop_ok
  /\ ~cur.layout => clean_ok
  /\ LET rb1 == IF cur.handler # 0 THEN <<<<"stop", stop_ok>>>> ELSE <<>>
         run_clean == cur.layout /\ drop_goes_on(rb1)
         rb2 == IF run_clean THEN Append(rb1, <<"cleanup", clean_ok>>) ELSE rb1
         run_mark == drop_goes_on(rb2)
         r == IF run_mark THEN mark_crashed(cache, store, cur.b, io_ok)
              ELSE MgrRes("", store, NoMgr)
     IN /\ proc' = IF cur.handler # 0 /\ stop_ok
                   THEN [proc EXCEPT ![cur.handler] = 0] ELSE proc
        /\ dir' = IF run_clean /\ clean_ok THEN [dir EXCEPT ![cur.b] = FALSE] ELSE dir
        /\ disk' = IF run_clean /\ clean_ok THEN [disk EXCEPT ![cur.b] = 0] ELSE disk
        /\ store' = r.store
        /\ mgr' = r.mgr
        /\ cur' = [cur EXCEPT !.rb =
                     IF run_mark THEN Append(rb2, <<"mark_crashed", r.res = "Ok">>)
                     ELSE rb2]
  /\ pc' = "guard_remove"
  /\ UNCHANGED <<lock, bootChanged, cache, boxes_created, boxes_failed, handles,
                 ret, second, stoppedOk, nextId, nextBuild, faults>>
  /\ UNCHANGED aux

\* CleanupGuard::drop: box_manager.remove (an error is only logged)
GuardRemove(io_ok) ==
  /\ pc = "guard_remove" /\ mgr = NoMgr
  /\ LET run_remove == drop_goes_on(cur.rb)
         r == IF run_remove THEN remove(cache, store, cur.b, io_ok)
              ELSE MgrRes("", store, NoMgr)
     IN /\ store' = r.store
        /\ mgr' = r.mgr
        /\ cur' = [cur EXCEPT !.rb = IF run_remove
                                     THEN Append(@, <<"remove", r.res = "Ok">>) ELSE @]
  /\ pc' = "guard_done"
  /\ UNCHANGED <<lock, bootChanged, cache, proc, dir, disk, boxes_created,
                 boxes_failed, handles, ret, second, stoppedOk, nextId, nextBuild,
                 faults>>
  /\ UNCHANGED aux

\* CleanupGuard::drop: the failure counter; then build's error reaches the caller
GuardDone ==
  /\ pc = "guard_done" /\ mgr = NoMgr
  /\ boxes_failed' = IF drop_goes_on(cur.rb) THEN boxes_failed + 1 ELSE boxes_failed
  /\ ret' = [cur EXCEPT !.res = cur.err]
  /\ cur' = NoOp
  /\ pc' = "idle"
  /\ UNCHANGED <<lock, bootChanged, store, cache, mgr, proc, dir, disk, boxes_created,
                 handles, second, stoppedOk, nextId, nextBuild, faults>>
  /\ UNCHANGED aux

\* ---------------------------------------------------------------------- stop
Finish(c, res) ==
  /\ ret' = [c EXCEPT !.res = res]
  /\ cur' = NoOp
  /\ pc' = "idle"

\* faulty variant: the handle is not marked
stop_entry_unmarked(hd) == hd

\* stop, first statement: the handle is marked shut down whatever follows
stop_entry(hd) == [hd EXCEPT !.is_shutdown = TRUE]

\* stop up to handler.stop: the state check, the guest shutdown (best effort),
\* the handler
StopStart(h, stop_ok) ==
  /\ pc = "idle" /\ mgr = NoMgr
  /\ handles[h].box # 0
  /\ LET b == handles[h].box
         row == cache[b]
         live == handles[h].inner
         op == [NoOp EXCEPT !.op = "stop", !.h = h, !.b = b, !.pre = row,
                            !.prestore = store[b], !.had_inner = live,
                            !.faulted = ~stop_ok]
     IN /\ handles' = [handles EXCEPT ![h] = [stop_entry(@) EXCEPT !.stop_called = TRUE]]
        /\ IF ~Present(row)
           THEN /\ stop_ok
                /\ ret' = [op EXCEPT !.res = "NotFound"]
                /\ UNCHANGED <<pc, cur, proc, faults>>
           ELSE IF ~can_stop(row.status)
           THEN /\ stop_ok
                /\ ret' = [op EXCEPT !.res = "InvalidState"]
                /\ UNCHANGED <<pc, cur, proc, faults>>
           ELSE IF live = 0
           THEN /\ stop_ok
                /\ cur' = op
                /\ pc' = "stop_status"
                /\ ret' = NoOp
                /\ UNCHANGED <<proc, faults>>
           ELSE /\ ~stop_ok => faults < MaxFaults
                /\ faults' = Spend(stop_ok)
                /\ IF stop_ok
                   THEN /\ proc' = [proc EXCEPT ![live] = 0]
                        /\ cur' = [op EXCEPT !.handler_stopped = TRUE]
                        /\ pc' = "stop_status"
                        /\ ret' = NoOp
                   ELSE /\ ret' = [op EXCEPT !.res = "Engine"]
                        /\ UNCHANGED <<pc, cur, proc>>
        /\ stoppedOk' = [stoppedOk EXCEPT ![b] = FALSE]
  /\ UNCHANGED <<lock, bootChanged, store, cache, mgr, dir, disk, boxes_created,
                 boxes_failed, second, nextId, nextBuild>>
  /\ UNCHANGED aux

\* stop: update_status(Stopped)?
StopStatus(io_ok) ==
  /\ pc = "stop_status" /\ mgr = NoMgr
  /\ io_ok \in IoChoices
  /\ LET r == update_status(cache, store, cur.b, "Stopped", io_ok)
     IN /\ store' = r.store
        /\ mgr' = r.mgr
        /\ IF r.res = "Ok"
           THEN pc' = "stop_pid" /\ cur' = cur /\ ret' = ret
           ELSE Finish([cur EXCEPT !.faulted = TRUE], r.res)
  /\ faults' = Spend(io_ok)
  /\ UNCHANGED <<lock, bootChanged, cache, proc, dir, disk, boxes_created,
                 boxes_failed, handles, second, stoppedOk, nextId, nextBuild>>
  /\ UNCHANGED aux

\* stop: update_pid(None)?
StopPid(io_ok) ==
  /\ pc = "stop_pid" /\ mgr = NoMgr
  /\ io_ok \in IoChoices
  /\ LET r == update_pid(cache, store, cur.b, 0, io_ok)
     IN /\ store' = r.store
        /\ mgr' = r.mgr
        /\ IF r.res = "Ok"
           THEN pc' = "stop_clear" /\ cur' = cur /\ ret' = ret
           ELSE Finish([cur EXCEPT !.faulted = TRUE], r.res)
  /\ faults' = Spend(io_ok)
  /\ UNCHANGED <<lock, bootChanged, cache, proc, dir, disk, boxes_created,
                 boxes_failed, handles, second, stoppedOk, nextId, nextBuild>>
  /\ UNCHANGED aux

\* faulty variant: the live value stays in the handle
stop_keeps_live(hd) == hd

\* stop: "*guard = None"
stop_clears_live(hd) == [hd EXCEPT !.inner = 0]

\* faulty variant: the box is never removed by stop
stop_keeps_box(hd) == FALSE

\* stop: "if litebox.auto_remove"
stop_auto_remove(hd) == hd.auto_remove

\* stop: the live value is cleared; with auto_remove, remove_box(id, false) follows
StopClear ==
  /\ pc = "stop_clear" /\ mgr = NoMgr
  /\ handles' = [handles EXCEPT ![cur.h] = stop_clears_live(@)]
  /\ IF stop_auto_remove(handles[cur.h])
     THEN /\ pc' = "remove_check"
          /\ cur' = [cur EXCEPT !.from_stop = TRUE]
          /\ UNCHANGED <<ret, stoppedOk>>
     ELSE /\ Finish(cur, "Ok")
          /\ stoppedOk' = [stoppedOk EXCEPT ![cur.b] = (cur.had_inner # 0)]
  /\ UNCHANGED <<lock, bootChanged, store, cache, mgr, proc, dir, disk, boxes_created,
                 boxes_failed, second, nextId, nextBuild, faults>>
  /\ UNCHANGED aux

\* -------------------------------------------------------------------- remove
\* faulty variant: no signal is sent
kill_process_skipped(pr, pid) == pr

\* kill_process: SIGKILL to the pid; the VMMs are the runtime user's own
\* processes, so the signal is delivered
kill_process(pr, pid) == [pr EXCEPT ![pid] = 0]

\* RuntimeInnerImpl::remove: resolve_id
RemoveStart(b, force) ==
  /\ pc = "idle" /\ mgr = NoMgr
  /\ LET op == [NoOp EXCEPT !.op = "remove", !.b = b, !.force = force,
                            !.pre = cache[b], !.prestore = store[b]]
     IN IF Present(cache[b])
        THEN pc' = "remove_check" /\ cur' = op /\ ret' = NoOp
        ELSE ret' = [op EXCEPT !.res = "NotFound"] /\ UNCHANGED <<pc, cur>>
  /\ stoppedOk' = [stoppedOk EXCEPT ![b] = FALSE]
  /\ UNCHANGED <<lock, bootChanged, store, cache, mgr, proc, dir, disk, boxes_created,
                 boxes_failed, handles, second, nextId, nextBuild, faults>>
  /\ UNCHANGED aux

\* faulty variant: an active box is killed and removed whatever `force` says
remove_box_plan_forced(row, force) ==
  IF ~Present(row) THEN "NotFound"
  ELSE IF is_active(row.status) THEN "kill"
  ELSE "remove"

\* remove_box: what the state read from the manager and `force` lead to
remove_box_plan(row, force) ==
  IF ~Present(row) THEN "NotFound"
  ELSE IF is_active(row.status) THEN (IF force THEN "kill" ELSE "InvalidState")
  ELSE "remove"

\* remove_box: read the state; an active box is killed (force) or refused
RemoveCheck ==
  /\ pc = "remove_check" /\ mgr = NoMgr
  /\ LET row == cache[cur.b]
         plan == remove_box_plan(row, cur.force)
     IN IF plan = "kill"
        THEN /\ proc' = IF row.pid # 0 THEN kill_process(proc, row.pid) ELSE proc
             /\ cur' = [cur EXCEPT !.signalled = (row.pid # 0)]
             /\ pc' = "remove_status"
             /\ UNCHANGED ret
        ELSE IF plan = "remove"
        THEN pc' = "remove_mgr" /\ UNCHANGED <<cur, ret, proc>>
        ELSE Finish(cur, plan) /\ UNCHANGED proc
  /\ UNCHANGED <<lock, bootChanged, store, cache, mgr, dir, disk, boxes_created,
                 boxes_failed, handles, second, stoppedOk, nextId, nextBuild, faults>>
  /\ UNCHANGED aux

\* remove_box, force: update_status(Stopped)?
RemoveStatus(io_ok) ==
  /\ pc = "remove_status" /\ mgr = NoMgr
  /\ io_ok \in IoChoices
  /\ LET r == update_status(cache, store, cur.b, "Stopped", io_ok)
     IN /\ store' = r.store
        /\ mgr' = r.mgr
        /\ IF r.res = "Ok"
           THEN pc' = "remove_pid" /\ cur' = cur /\ ret' = ret
           ELSE Finish([cur EXCEPT !.faulted = TRUE], r.res)
  /\ faults' = Spend(io_ok)
  /\ UNCHANGED <<lock, bootChanged, cache, proc, dir, disk, boxes_created,
                 boxes_failed, handles, second, stoppedOk, nextId, nextBuild>>
  /\ UNCHANGED aux

\* remove_box, force: update_pid(None)?
RemovePid(io_ok) ==
  /\ pc = "remove_pid" /\ mgr = NoMgr
  /\ io_ok \in IoChoices
  /\ LET r == update_pid(cache, store, cur.b, 0, io_ok)
     IN /\ store' = r.store
        /\ mgr' = r.mgr
        /\ IF r.res = "Ok"
           THEN pc' = "remove_mgr" /\ cur' = cur /\ ret' = ret
           ELSE Finish([cur EXCEPT !.faulted = TRUE], r.res)
  /\ faults' = Spend(io_ok)
  /\ UNCHANGED <<lock, bootChanged, cache, proc, dir, disk, boxes_created,
                 boxes_failed, handles, second, stoppedOk, nextId, nextBuild>>
  /\ UNCHANGED aux

\* remove_box: box_manager.remove?
RemoveMgr(io_ok) ==
  /\ pc = "remove_mgr" /\ mgr = NoMgr
  /\ io_ok \in IoChoices
  /\ LET r == remove(cache, store, cur.b, io_ok)
     IN /\ store' = r.store
        /\ mgr' = r.mgr
        /\ IF r.res = "Ok"
           THEN pc' = "remove_dir" /\ cur' = cur /\ ret' = ret
           ELSE Finish([cur EXCEPT !.faulted = TRUE], r.res)
  /\ faults' = Spend(io_ok)
  /\ UNCHANGED <<lock, bootChanged, cache, proc, dir, disk, boxes_created,
                 boxes_failed, handles, second, stoppedOk, nextId, nextBuild>>
  /\ UNCHANGED aux

\* remove_box: remove_dir_all(box_home) if it exists; a failure is only logged
RemoveDir(rm_ok) ==
  /\ pc = "remove_dir" /\ mgr = NoMgr
  /\ ~rm_ok => dir[cur.b] /\ faults < MaxFaults
  /\ faults' = Spend(rm_ok)
  /\ dir' = IF rm_ok THEN [dir EXCEPT ![cur.b] = FALSE] ELSE dir
  /\ disk' = IF rm_ok THEN [disk EXCEPT ![cur.b] = 0] ELSE disk
  /\ Finish([cur EXCEPT !.dir_failed = ~rm_ok, !.faulted = @ \/ ~rm_ok], "Ok")
  /\ UNCHANGED <<lock, bootChanged, store, cache, mgr, proc, boxes_created,
                 boxes_failed, handles, second, stoppedOk, nextId, nextBuild>>
  /\ UNCHANGED aux

\* ---------------------------------------------------------------------- drop
\* drop_handler: does dropping the handle panic?
drop_panics(hd, row) == ~hd.is_shutdown /\ Present(row) /\ is_active(row.status)

DropHandle(h) ==
  /\ pc = "idle" /\ mgr = NoMgr
  /\ handles[h].box # 0
  /\ ret' = [NoOp EXCEPT !.op = "drop", !.h = h, !.b = handles[h].box,
                         !.stop_called = handles[h].stop_called,
                         !.res = IF drop_panics(handles[h], cache[handles[h].box])
                                 THEN "Panic" ELSE "Ok"]
  /\ handles' = [handles EXCEPT ![h] = NoHandle]
  /\ UNCHANGED <<pc, lock, bootChanged, store, cache, mgr, proc, dir, disk,
                 boxes_created, boxes_failed, cur, second, stoppedOk, nextId, nextBuild,
                 faults>>
  /\ UNCHANGED aux

\* --------------------------------------------------------------------- system

\* --------------------------------- components specified on their own: idle
\* refresh_states has nothing to walk
NoReg == [cache |-> <<>>, store |-> <<>>, proc |-> <<>>, pre |-> <<>>,
          out |-> {}, done |-> FALSE]

\* ----------------------------------------------------- build_network_config
Ports == 1..MaxPort
\* what container_config.tcp_ports() returns: the image's exposed TCP ports
TcpPorts == SUBSET Ports
\* PortSpec of BoxOptions.ports; host_port 0 stands for None
PortSpecs == [guest_port : Ports, host_port : 0..MaxPort]
UserPorts == UNION {[1..n -> PortSpecs] : n \in 0..MaxUserPorts}

\* HashMap::insert on the host -> guest map, kept as a set of <<host, guest>>
port_map_insert(m, host, guest) == {e \in m : e[1] # host} \cup {<<host, guest>>}

\* port.host_port.unwrap_or(port.guest_port)
host_port_of(port) == IF port.host_port = 0 THEN port.guest_port ELSE port.host_port

\* step 3 of build_network_config: the user's mappings, in order
RECURSIVE apply_user_ports(_, _)
apply_user_ports(m, ports) ==
  IF ports = <<>> THEN m
  ELSE apply_user_ports(port_map_insert(m, host_port_of(Head(ports)),
                                        Head(ports).guest_port),
                        Tail(ports))

\* faulty variant: the image's default mapping is added also for a guest port
\* the user maps
build_network_config_defaults_kept(tcp_ports, ports) ==
  apply_user_ports({<<p, p>> : p \in tcp_ports}, ports)

\* build_network_config: the final (host, guest) mappings
build_network_config(tcp_ports, ports) ==
  LET user_guest_ports == {ports[i].guest_port : i \in 1..Len(ports)}
  IN apply_user_ports({<<p, p>> : p \in tcp_ports \ user_guest_ports}, ports)

NoNet == [tcp_ports |-> {}, ports |-> <<>>, built |-> FALSE, map |-> {}]

\* VmmSpawnTask building the instance spec: the network configuration
BuildNetworkConfig ==
  /\ ~net.built
  /\ net' = [net EXCEPT !.built = TRUE,
                        !.map = build_network_config(net.tcp_ports, net.ports)]
  /\ UNCHANGED <<rt_vars, reg, mnt, cc, pl, cr>>

InitNetwork ==
  /\ InitRuntime
  /\ net \in [tcp_ports : TcpPorts, ports : UserPorts, built : {FALSE}, map : {{}}]
  /\ reg = NoReg
  /\ mnt = <<>>
  /\ cc = <<>>
  /\ pl = <<>>
  /\ cr = <<>>

NextNetwork == BuildNetworkConfig

SpecNetwork == InitNetwork /\ [][NextNetwork]_vars

\* ------------------------------------------------ BoxManager::refresh_states
RefreshIds == 1..MaxRefreshBoxes
\* owner of a process that is not a VMM of one of these boxes
ForeignOwner == MaxRefreshBoxes + 1
\* the status and PID of a registered box: a stopped box has no PID
RefreshRows ==
  {r \in [status : {"Starting", "Running", "Stopped"}, pid : 0..MaxRefreshBoxes] :
     r.status = "Stopped" => r.pid = 0}

\* refresh_states: the boxes it finds crashed
newly_crashed(c, pr) ==
  {b \in DOMAIN c : /\ is_active(c[b].status)
                     /\ c[b].pid # 0
                     /\ ~is_process_alive(pr, c[b].pid)}

\* refresh_states, under the manager's write lock: the cache entries are marked
\* first, then the store is written; a failed store write (failed) is only logged
RefreshStates(failed) ==
  /\ ~reg.done
  /\ LET crashed == newly_crashed(reg.cache, reg.proc)
     IN /\ failed \subseteq crashed
        /\ reg' = [reg EXCEPT
                     !.cache = [b \in RefreshIds |->
                                  IF b \in crashed THEN mark_crashed_state(reg.cache[b])
                                  ELSE reg.cache[b]],
                     !.store = [b \in RefreshIds |->
                                  IF b \in crashed \ failed
                                  THEN mark_crashed_state(reg.store[b])
                                  ELSE reg.store[b]],
                     !.out = crashed,
                     !.done = TRUE]
  /\ UNCHANGED <<rt_vars, net, mnt, cc, pl, cr>>

InitRefresh ==
  /\ InitRuntime
  /\ net = NoNet
  /\ \E rows \in [RefreshIds -> RefreshRows],
        pr \in [1..MaxRefreshBoxes -> 0..ForeignOwner] :
       reg = [cache |-> rows, store |-> rows, proc |-> pr, pre |-> rows,
              out |-> {}, done |-> FALSE]
  /\ mnt = <<>>
  /\ cc = <<>>
  /\ pl = <<>>
  /\ cr = <<>>

NextRefresh == \E failed \in SUBSET RefreshIds : RefreshStates(failed)

SpecRefresh == InitRefresh /\ [][NextRefresh]_vars

\* ------------------------------------------- BoxManager, called on its own
\* the calls made on the manager: method and argument
ManagerCalls ==
  [op : {"register"}, row : {new_row(o.name, o.auto_remove, o.isolate) : o \in Options}]
  \cup [op : {"update_status"}, status : {"Running", "Stopped"}]
  \cup [op : {"update_pid"}, n : 0..MaxBuilds]
  \cup [op : {"update_container_id"}, n : 1..Malformed]
  \cup [op : {"mark_crashed", "remove"}]

\* one BoxManager method up to its store write; MgrCommit is its cache update.
\* History: pre / prestore are the rows before the call.
ManagerCall(call, id, io_ok) ==
  /\ mgr = NoMgr
  /\ LET r == CASE call.op = "register" -> register(cache, store, id, call.row, io_ok)
                [] call.op = "update_status" ->
                     update_status(cache, store, id, call.status, io_ok)
                [] call.op = "update_pid" -> update_pid(cache, store, id, call.n, io_ok)
                [] call.op = "update_container_id" ->
                     update_container_id(cache, store, id, call.n, io_ok)
                [] call.op = "mark_crashed" -> mark_crashed(cache, store, id, io_ok)
                [] call.op = "remove" -> remove(cache, store, id, io_ok)
     IN /\ store' = r.store
        /\ mgr' = r.mgr
        /\ ret' = [NoOp EXCEPT !.op = call.op, !.b = id, !.res = r.res,
                               !.pre = cache[id], !.prestore = store[id]]
  /\ UNCHANGED <<pc, lock, bootChanged, cache, proc, dir, disk, boxes_created,
                 boxes_failed, handles, cur, second, stoppedOk, nextId, nextBuild,
                 faults>>
  /\ UNCHANGED aux

NextManager ==
  \/ \E call \in ManagerCalls, id \in BoxIds, io_ok \in BOOLEAN :
       ManagerCall(call, id, io_ok)
  \/ MgrCommit

\* BoxManager::new on an empty store
InitManager ==
  /\ InitRuntime
  /\ net = NoNet
  /\ reg = NoReg
  /\ mnt = <<>>
  /\ cc = <<>>
  /\ pl = <<>>
  /\ cr = <<>>

SpecManager == InitManager /\ [][NextManager]_vars

\* ------------------------------------------------------------- bind mounts
\* NativeBindMount::create / FuseBindMount::create returned Ok: the target is
\* mounted, the handle is held.  session and server_thread are the FUSE
\* implementation's Options (absent in the native one).  History: umounts counts
\* the underlying unmounts, failed tells that one failed, first / second are the
\* results of the explicit unmount and of the unmount made by the drop after it.
NewMount(kind) ==
  [kind |-> kind, handle |-> "held", mounted |-> TRUE,
   session |-> kind = "fuse", server_thread |-> kind = "fuse",
   os_mounted |-> TRUE, umounts |-> 0, failed |-> FALSE,
   first |-> "", second |-> "", last |-> ""]

\* faulty variant: the mounted flag is not cleared
impl_unmount_flag_kept(m, ok) ==
  [m EXCEPT !.session = FALSE,
            !.server_thread = IF ok THEN FALSE ELSE @,
            !.os_mounted = IF ok THEN FALSE ELSE @,
            !.umounts = @ + 1,
            !.failed = @ \/ ~ok,
            !.last = IF ok THEN "Ok" ELSE "Storage"]

\* NativeBindMount::unmount / FuseBindMount::unmount: nothing to do when the
\* flag is down; else the flag is cleared first, then umount2 / session.umount
\* (ok: it succeeds), and the FUSE server thread is joined after a success
impl_unmount(m, ok) ==
  IF ~m.mounted THEN [m EXCEPT !.last = "Ok"]
  ELSE [m EXCEPT !.mounted = FALSE,
                 !.session = FALSE,
                 !.server_thread = IF ok THEN FALSE ELSE @,
                 !.os_mounted = IF ok THEN FALSE ELSE @,
                 !.umounts = @ + 1,
                 !.failed = @ \/ ~ok,
                 !.last = IF ok THEN "Ok" ELSE "Storage"]

\* BindMountHandle::unmount(mut self): do_unmount; self is dropped on return
HandleUnmount(i, ok) ==
  /\ mnt[i].handle = "held"
  /\ LET m == impl_unmount(mnt[i], ok)
     IN mnt' = [mnt EXCEPT ![i] = [m EXCEPT !.handle = "dropping", !.first = m.last]]
  /\ UNCHANGED <<rt_vars, net, reg, cc, pl, cr>>

\* Drop for BindMountHandle: do_unmount, an error is only logged
HandleDrop(i, ok) ==
  /\ mnt[i].handle \in {"held", "dropping"}
  /\ LET m == impl_unmount(mnt[i], ok)
     IN mnt' = [mnt EXCEPT ![i] =
                  [m EXCEPT !.handle = "gone",
                            !.second = IF mnt[i].handle = "dropping" THEN m.last ELSE @]]
  /\ UNCHANGED <<rt_vars, net, reg, cc, pl, cr>>

InitMount ==
  /\ InitRuntime
  /\ net = NoNet
  /\ reg = NoReg
  /\ cc = <<>>
  /\ pl = <<>>
  /\ cr = <<>>
  /\ \E kinds \in [1..MaxMounts -> {"native", "fuse"}] :
       mnt = [i \in 1..MaxMounts |-> NewMount(kinds[i])]

NextMount ==
  \/ \E i \in 1..MaxMounts, ok \in BOOLEAN : HandleUnmount(i, ok)
  \/ \E i \in 1..MaxMounts, ok \in BOOLEAN : HandleDrop(i, ok)

SpecMount == InitMount /\ [][NextMount]_vars

\* ------------------------------------- ensure_ready with concurrent callers
\* One box (status and pid as the manager shows them; alive: the VMM processes
\* running), its LiteBox handles and the callers (th) of ensure_ready.  Per
\* handle: inner (0: None, else the live value: the PID it holds), builder (the
\* status snapshot the BoxBuilder was made with, "none": no builder), wlock (the
\* caller holding inner's write lock, 0: free), builds (history: how many times
\* the handle's builder was run).
NoCaller == [pc |-> "idle", h |-> 0, pid_seen |-> 0, plan |-> "", build |-> 0,
             res |-> "", got |-> 0, fast |-> FALSE, wrote |-> FALSE]

\* faulty variant: the builder stays in the handle
take_builder_kept(builder) == builder

\* litebox.builder.lock().await.take(): what is left in the handle
take_builder(builder) == "none"

\* the caller returns, releasing the write lock if it holds it
Return(c, res, got, more) ==
  [more EXCEPT !.wlock = [h \in DOMAIN more.wlock |->
                           IF more.wlock[h] = c THEN 0 ELSE more.wlock[h]],
               !.th[c].pc = "done", !.th[c].res = res, !.th[c].got = got]

\* Runtime.get -> LiteBox::new: a further handle, with a builder made from the
\* state the manager shows
GetHandle(h) ==
  /\ cc.builder[h] = "absent"
  /\ can_exec(cc.status)
  /\ cc' = [cc EXCEPT !.builder[h] = cc.status]
  /\ UNCHANGED <<rt_vars, net, reg, mnt, pl, cr>>

\* a caller starts an operation on a handle
Call(c, h) ==
  /\ cc.th[c].pc = "idle"
  /\ cc.builder[h] # "absent"
  /\ cc' = [cc EXCEPT !.th[c].pc = "fast", !.th[c].h = h]
  /\ UNCHANGED <<rt_vars, net, reg, mnt, pl, cr>>

\* ensure_ready, fast path under the read lock
EnsureReadyFast(c) ==
  /\ cc.th[c].pc = "fast"
  /\ cc.wlock[cc.th[c].h] = 0
  /\ cc' = IF cc.inner[cc.th[c].h] # 0
           THEN Return(c, "Ok", cc.inner[cc.th[c].h], [cc EXCEPT !.th[c].fast = TRUE])
           ELSE [cc EXCEPT !.th[c].pc = "state"]
  /\ UNCHANGED <<rt_vars, net, reg, mnt, pl, cr>>

\* ensure_ready: box_manager.get and the match on the status
EnsureReadyState(c) ==
  /\ cc.th[c].pc = "state"
  /\ cc' = CASE cc.status \in {"Starting", "Stopped"} -> [cc EXCEPT !.th[c].pc = "init_wait"]
             [] cc.status = "Running" ->
                  [cc EXCEPT !.th[c].pc = "reattach_wait", !.th[c].pid_seen = cc.pid]
             [] OTHER -> Return(c, "NotFound", 0, cc)
  /\ UNCHANGED <<rt_vars, net, reg, mnt, pl, cr>>

\* litebox.inner.write().await in init_from_builder / reattach_to_running
WriteLock(c) ==
  /\ cc.th[c].pc \in {"init_wait", "reattach_wait"}
  /\ cc.wlock[cc.th[c].h] = 0
  /\ cc' = [cc EXCEPT !.wlock[cc.th[c].h] = c, !.th[c].wrote = TRUE,
                      !.th[c].pc = IF @ = "init_wait" THEN "init" ELSE "reattach"]
  /\ UNCHANGED <<rt_vars, net, reg, mnt, pl, cr>>

\* init_from_builder under the write lock: the double check, then the builder
\* is taken and build() starts
InitFromBuilder(c) ==
  /\ cc.th[c].pc = "init"
  /\ LET h == cc.th[c].h
     IN cc' = IF cc.inner[h] # 0 THEN Return(c, "Ok", cc.inner[h], cc)
              ELSE IF cc.builder[h] = "none" THEN Return(c, "Internal", 0, cc)
              ELSE [cc EXCEPT !.builder[h] = take_builder(@),
                              !.builds[h] = @ + 1,
                              !.next = @ + 1,
                              !.th[c].plan = cc.builder[h],
                              !.th[c].build = cc.next,
                              !.th[c].pc = "building"]
  /\ UNCHANGED <<rt_vars, net, reg, mnt, pl, cr>>

\* BoxBuilder::build up to the VMM: a fresh or restart plan spawns a subprocess
\* and records PID and Running; the reattach plan attaches to the recorded PID
BuilderSpawn(c) ==
  /\ cc.th[c].pc = "building"
  /\ cc' = IF cc.th[c].plan \in {"Starting", "Stopped"}
           THEN [cc EXCEPT !.alive = @ \cup {cc.th[c].build},
                           !.pid = IF cc.status = "None" THEN @ ELSE cc.th[c].build,
                           !.status = IF @ = "None" THEN @ ELSE "Running",
                           !.th[c].pc = "spawned"]
           ELSE IF cc.pid \in cc.alive
           THEN [cc EXCEPT !.th[c].build = cc.pid, !.th[c].pc = "spawned"]
           ELSE Return(c, "InvalidState", 0, cc)
  /\ UNCHANGED <<rt_vars, net, reg, mnt, pl, cr>>

\* BoxBuilder::build returns: Ok publishes the live value; on an error the
\* CleanupGuard of a build made from a Starting snapshot stops the VMM it spawned
\* and removes the box, any other build leaves everything as it is
BuilderFinish(c, ok) ==
  /\ cc.th[c].pc \in {"building", "spawned"}
  /\ ok => cc.th[c].pc = "spawned"
  /\ cc' = IF ok
           THEN Return(c, "Ok", cc.th[c].build, [cc EXCEPT !.inner[cc.th[c].h] = cc.th[c].build])
           ELSE IF cc.th[c].plan = "Starting"
           THEN Return(c, "Engine", 0,
                       [cc EXCEPT !.alive = IF cc.th[c].pc = "spawned"
                                            THEN @ \ {cc.th[c].build} ELSE @,
                                  !.status = "None", !.pid = 0])
           ELSE Return(c, "Engine", 0, cc)
  /\ UNCHANGED <<rt_vars, net, reg, mnt, pl, cr>>

\* reattach_to_running under the write lock
ReattachToRunning(c) ==
  /\ cc.th[c].pc = "reattach"
  /\ LET h == cc.th[c].h
         p == cc.th[c].pid_seen
     IN cc' = IF cc.inner[h] # 0 THEN Return(c, "Ok", cc.inner[h], cc)
              ELSE IF p = 0 THEN Return(c, "InvalidState", 0, cc)
              ELSE IF p \notin cc.alive
              THEN Return(c, "InvalidState", 0,
                          IF cc.status = "None" THEN cc
                          ELSE [cc EXCEPT !.status = "Stopped", !.pid = 0])
              ELSE Return(c, "Ok", p, [cc EXCEPT !.inner[h] = p])
  /\ UNCHANGED <<rt_vars, net, reg, mnt, pl, cr>>

\* the box is registered and not running; handle 1 is the one from create (or
\* from get, for a Stopped box)
InitCallers ==
  /\ InitRuntime
  /\ net = NoNet
  /\ reg = NoReg
  /\ mnt = <<>>
  /\ pl = <<>>
  /\ cr = <<>>
  /\ \E s \in {"Starting", "Stopped"} :
       cc = [status |-> s, pid |-> 0, alive |-> {}, next |-> 1,
             inner |-> [h \in 1..MaxBoxHandles |-> 0],
             builder |-> [h \in 1..MaxBoxHandles |-> IF h = 1 THEN s ELSE "absent"],
             wlock |-> [h \in 1..MaxBoxHandles |-> 0],
             builds |-> [h \in 1..MaxBoxHandles |-> 0],
             th |-> [c \in 1..MaxCallers |-> NoCaller]]

NextCallers ==
  \/ \E h \in 1..MaxBoxHandles : GetHandle(h)
  \/ \E c \in 1..MaxCallers, h \in 1..MaxBoxHandles : Call(c, h)
  \/ \E c \in 1..MaxCallers : EnsureReadyFast(c)
  \/ \E c \in 1..MaxCallers : EnsureReadyState(c)
  \/ \E c \in 1..MaxCallers : WriteLock(c)
  \/ \E c \in 1..MaxCallers : InitFromBuilder(c)
  \/ \E c \in 1..MaxCallers : BuilderSpawn(c)
  \/ \E c \in 1..MaxCallers, ok \in BOOLEAN : BuilderFinish(c, ok)
  \/ \E c \in 1..MaxCallers : ReattachToRunning(c)

SpecCallers == InitCallers /\ [][NextCallers]_vars

\* ------------------------------------------------- PipelineExecutor::execute
\* A pipeline is a list of stages, a stage an execution mode and its tasks
\* 1..n.  History: started / finished are the <<stage, task>> pairs whose run has
\* been started / has returned Ok, failed is the task whose error execute
\* returned (<<0, 0>>: none).
Pipelines ==
  UNION {[1..k -> [mode : {"Sequential", "Parallel"}, n : 1..MaxTasks]] :
           k \in 1..MaxStages}

\* faulty variant: a sequential stage does not await the previous task
may_start_unordered(p, t) ==
  /\ p.res = ""
  /\ t \in 1..p.stages[p.stage].n
  /\ <<p.stage, t>> \notin p.started

\* execute: task t of the current stage may be started now; a parallel stage
\* polls all its tasks, a sequential one runs them one by one
may_start(p, t) ==
  /\ p.res = ""
  /\ t \in 1..p.stages[p.stage].n
  /\ <<p.stage, t>> \notin p.started
  /\ p.stages[p.stage].mode = "Sequential" =>
       \A u \in 1..(t - 1) : <<p.stage, u>> \in p.finished

\* task.run(ctx) is started
TaskStart(t) ==
  /\ may_start(pl, t)
  /\ pl' = [pl EXCEPT !.started = @ \cup {<<pl.stage, t>>}]
  /\ UNCHANGED <<rt_vars, net, reg, mnt, cc, cr>>

\* faulty variant: the peers of a failed task are left running
drop_pending_none(p, failed) == {}

\* try_join_all(futures).await?: the first error is returned at once and the
\* futures of the stage are dropped with it, so the tasks that were started and
\* have not returned are never polled again
drop_pending(p, failed) == p.started \ (p.finished \cup {failed})

\* task.run(ctx) returns: an error ends execute (`?`); after the last task of a
\* stage the next stage begins, and after the last stage execute returns Ok
TaskEnd(t, ok) ==
  /\ <<pl.stage, t>> \in pl.started \ (pl.finished \cup pl.cancelled \cup {pl.failed})
  /\ LET fin == pl.finished \cup {<<pl.stage, t>>}
         stage_done == \A u \in 1..pl.stages[pl.stage].n : <<pl.stage, u>> \in fin
     IN pl' = IF pl.res # "" THEN [pl EXCEPT !.finished = fin]
              ELSE IF ~ok THEN [pl EXCEPT !.res = "Err", !.failed = <<pl.stage, t>>,
                                     !.cancelled = drop_pending(pl, <<pl.stage, t>>)]
              ELSE IF ~stage_done THEN [pl EXCEPT !.finished = fin]
              ELSE IF pl.stage = Len(pl.stages)
              THEN [pl EXCEPT !.finished = fin, !.res = "Ok"]
              ELSE [pl EXCEPT !.finished = fin, !.stage = @ + 1]
  /\ UNCHANGED <<rt_vars, net, reg, mnt, cc, cr>>

InitPipeline ==
  /\ InitRuntime
  /\ net = NoNet
  /\ reg = NoReg
  /\ mnt = <<>>
  /\ cc = <<>>
  /\ cr = <<>>
  /\ \E stages \in Pipelines :
       pl = [stages |-> stages, stage |-> 1, started |-> {}, finished |-> {},
             failed |-> <<0, 0>>, cancelled |-> {}, res |-> ""]

NextPipeline ==
  \/ \E t \in 1..MaxTasks : TaskStart(t)
  \/ \E t \in 1..MaxTasks, ok \in BOOLEAN : TaskEnd(t, ok)

SpecPipeline == InitPipeline /\ [][NextPipeline]_vars

\* ------------------------------------------------------------ the runtime
\* ------------------------------------------- concurrent Runtime::create
\* Threads of one process call create; each call is the name check, then
\* init_box_variables (a fresh BoxID), then register, which holds the manager's
\* lock over its store write and its cache insert.
Creators == 1..MaxCallers
Names == {"", "web", "db"}

\* create up to init_box_variables
CreateCheck(t, name) ==
  /\ cr.th[t].pc = "idle"
  /\ cr.next <= MaxCallers
  /\ IF create_check(cr.cache, name) # ""
     THEN cr' = [cr EXCEPT !.th[t] = [pc |-> "done", name |-> name, id |-> 0,
                                     res |-> create_check(cr.cache, name)]]
     ELSE cr' = [cr EXCEPT !.th[t] = [pc |-> "register", name |-> name,
                                     id |-> cr.next, res |-> ""],
                           !.next = @ + 1]
  /\ UNCHANGED <<rt_vars, net, reg, mnt, cc, pl>>

\* box_manager.register, and the return of create
CreateRegister(t, io_ok) ==
  /\ cr.th[t].pc = "register"
  /\ LET me == cr.th[t]
         r == register(cr.cache, cr.store, me.id, new_row(me.name, FALSE, FALSE), io_ok)
     IN cr' = [cr EXCEPT !.store = r.store,
                         !.cache = IF r.res = "Ok"
                                   THEN [cr.cache EXCEPT ![r.mgr.id] = r.mgr.row]
                                   ELSE cr.cache,
                         !.th[t] = [me EXCEPT !.pc = "done", !.res = r.res]]
  /\ UNCHANGED <<rt_vars, net, reg, mnt, cc, pl>>

InitCreate ==
  /\ InitRuntime
  /\ net = NoNet
  /\ reg = NoReg
  /\ mnt = <<>>
  /\ cc = <<>>
  /\ pl = <<>>
  /\ cr = [store |-> [b \in Creators |-> NoRow], cache |-> [b \in Creators |-> NoRow],
           th |-> [t \in Creators |-> [pc |-> "idle", name |-> "", id |-> 0,
                                       res |-> ""]],
           next |-> 1]

NextCreate ==
  \/ \E t \in Creators, name \in Names : CreateCheck(t, name)
  \/ \E t \in Creators, io_ok \in BOOLEAN : CreateRegister(t, io_ok)

SpecCreate == InitCreate /\ [][NextCreate]_vars

\* ------------------------------------ the init tasks on any context
\* The context as a task may be handed it: any subset of the slots filled, at
\* any stage of the fresh or of the restart plan of a registered box.
Slots == {"fs_output", "rootfs_output", "guest_rootfs_output", "config_output",
          "container_config", "guest_session"}

InitTasks ==
  /\ net = NoNet /\ reg = NoReg /\ mnt = <<>> /\ cc = <<>> /\ pl = <<>> /\ cr = <<>>
  /\ lock = TRUE /\ bootChanged = FALSE /\ mgr = NoMgr
  /\ boxes_created = 1 /\ boxes_failed = 0
  /\ ret = NoOp /\ second = NoSecond
  /\ stoppedOk = [b \in BoxIds |-> FALSE]
  /\ nextId = 2 /\ faults = 0
  /\ pc = "pipeline"
  /\ handles = [h \in Handles |-> IF h = 1 THEN [NoHandle EXCEPT !.box = 1]
                                    ELSE NoHandle]
  /\ \E plan \in {"Starting", "Stopped"}, slots \in SUBSET Slots :
     \E stage \in 1..Len(get_execution_plan(plan)) :
       LET build == IF plan = "Starting" THEN 1 ELSE 2
           spawned == "config_output" \in slots
           row == [new_row("", FALSE, FALSE) EXCEPT
                     !.status = IF spawned THEN "Running" ELSE plan,
                     !.pid = IF spawned THEN build ELSE 0,
                     !.cid = IF plan = "Stopped" THEN 1 ELSE 0]
       IN /\ store = [b \in BoxIds |-> IF b = 1 THEN row ELSE NoRow]
          /\ cache = store
          /\ proc = [p \in Pids |-> IF spawned /\ p = build THEN 1 ELSE 0]
          /\ dir = [b \in BoxIds |-> b = 1 /\ (plan = "Stopped" \/ "fs_output" \in slots)]
          /\ disk = [b \in BoxIds |-> IF b = 1 /\ plan = "Stopped" THEN 1 ELSE 0]
          /\ nextBuild = build + 1
          /\ cur = [NoOp EXCEPT !.op = "exec", !.h = 1, !.b = 1, !.plan = plan,
                                !.armed = (plan = "Starting"), !.build = build,
                                !.stage = stage, !.slots = slots,
                                !.layout = ("fs_output" \in slots),
                                !.handler = IF spawned THEN build ELSE 0,
                                !.pre_disk = IF plan = "Stopped" THEN 1 ELSE 0]

NextTasks ==
  \/ \E outcome \in {"ok", "prepare_failed", "bind_mount_failed"} :
       TaskFilesystem(outcome)
  \/ \E outcome \in {"ok", "failed", "failed_after_disk"} : TaskContainerRootfs(outcome)
  \/ \E ok \in BOOLEAN : TaskGuestRootfs(ok)
  \/ \E ok \in BOOLEAN : TaskVmmSpawn(ok)
  \/ \E io_ok \in BOOLEAN : SpawnUpdatePid(io_ok)
  \/ \E io_ok \in BOOLEAN : SpawnUpdateStatus(io_ok)
  \/ \E ok \in BOOLEAN : TaskGuestConnect(ok)
  \/ \E ok \in BOOLEAN : TaskGuestInit(ok)
  \/ MgrCommit
  \/ \E stop_ok \in BOOLEAN, clean_ok \in BOOLEAN, io_ok \in BOOLEAN :
       GuardDrop(stop_ok, clean_ok, io_ok)
  \/ \E io_ok \in BOOLEAN : GuardRemove(io_ok)
  \/ GuardDone

SpecTasks == InitTasks /\ [][NextTasks]_vars

Init ==
  /\ InitRuntime
  /\ net = NoNet
  /\ reg = NoReg
  /\ mnt = <<>>
  /\ cc = <<>>
  /\ pl = <<>>
  /\ cr = <<>>

Next ==
  \/ \E absolute \in BOOLEAN : RuntimeNew(absolute)
  \/ RuntimeRecover
  \/ SecondRuntimeNew
  \/ SecondExit
  \/ Crash
  \/ HostReboot
  \/ \E p \in Pids : VmmDies(p)
  \/ \E p \in Pids : PidReused(p)
  \/ MgrCommit
  \/ \E o \in Options, io_ok \in BOOLEAN :
       Create(o.name, o.auto_remove, o.isolate, io_ok)
  \/ CreateDone
  \/ \E b \in BoxIds : Get(b)
  \/ \E h \in Handles : ExecLive(h)
  \/ \E h \in Handles : ExecRefused(h)
  \/ \E h \in Handles : ExecBuild(h)
  \/ \E h \in Handles, io_ok \in IoChoices : ExecReattach(h, io_ok)
  \/ \E outcome \in {"ok", "prepare_failed", "bind_mount_failed"} : TaskFilesystem(outcome)
  \/ \E outcome \in {"ok", "failed", "failed_after_disk"} : TaskContainerRootfs(outcome)
  \/ \E ok \in BOOLEAN : TaskGuestRootfs(ok)
  \/ \E ok \in BOOLEAN : TaskVmmSpawn(ok)
  \/ \E io_ok \in BOOLEAN : SpawnUpdatePid(io_ok)
  \/ \E io_ok \in BOOLEAN : SpawnUpdateStatus(io_ok)
  \/ TaskVmmAttach
  \/ \E ok \in BOOLEAN : TaskGuestConnect(ok)
  \/ \E ok \in BOOLEAN : TaskGuestInit(ok)
  \/ \E io_ok \in BOOLEAN : BuildFinish(io_ok)
  \/ BuildDone
  \/ \E stop_ok \in BOOLEAN, clean_ok \in BOOLEAN, io_ok \in BOOLEAN :
       GuardDrop(stop_ok, clean_ok, io_ok)
  \/ \E io_ok \in BOOLEAN : GuardRemove(io_ok)
  \/ GuardDone
  \/ \E h \in Handles, stop_ok \in BOOLEAN : StopStart(h, stop_ok)
  \/ \E io_ok \in BOOLEAN : StopStatus(io_ok)
  \/ \E io_ok \in BOOLEAN : StopPid(io_ok)
  \/ StopClear
  \/ \E b \in BoxIds, force \in BOOLEAN : RemoveStart(b, force)
  \/ RemoveCheck
  \/ \E io_ok \in BOOLEAN : RemoveStatus(io_ok)
  \/ \E io_ok \in BOOLEAN : RemovePid(io_ok)
  \/ \E io_ok \in BOOLEAN : RemoveMgr(io_ok)
  \/ \E rm_ok \in BOOLEAN : RemoveDir(rm_ok)
  \/ \E h \in Handles : DropHandle(h)

Spec == Init /\ [][Next]_vars

\* ==================================================================== claims

\* C1 (database-first): whenever a BoxManager mutation (register, update_status,
\* update_pid, update_container_id, mark_crashed, remove) is about to change the
\* cache, the store already holds the value it is going to put there; a mutation
\* whose store write failed has no cache change to make.
DatabaseFirst ==
  mgr # NoMgr =>
    CASE mgr.op = "register" -> store[mgr.id] = mgr.row
      [] mgr.op = "update_status" -> store[mgr.id].status = mgr.row.status
      [] mgr.op = "update_pid" -> store[mgr.id].pid = mgr.row.pid
      [] mgr.op = "update_container_id" -> store[mgr.id].cid = mgr.row.cid
      [] mgr.op = "mark_crashed" ->
           Present(mgr.row) => /\ store[mgr.id].status = mgr.row.status
                               /\ store[mgr.id].pid = mgr.row.pid
      [] mgr.op = "remove" -> ~Present(store[mgr.id])
      [] OTHER -> FALSE

\* a status update between its store write and its cache update
DatabaseFirstWitness ==
  /\ mgr.op = "update_status"
  /\ cache[mgr.id].status # mgr.row.status
  /\ store[mgr.id].status = mgr.row.status

\* C2 (recovery leaves cache and store equal): once Runtime::new has returned,
\* the cached (status, pid, container_id) of every box equals its store row.
RecoveredCacheEqualsStore ==
  (pc = "idle" /\ ret.op = "new") =>
    \A b \in BoxIds : /\ cache[b].status = store[b].status
                      /\ cache[b].pid = store[b].pid
                      /\ cache[b].cid = store[b].cid

\* C3 (cleanup on init failure): when a task of the fresh plan fails during the
\* first operation on a box, then on return the box has no row in the store or
\* the cache, boxes_failed has grown by exactly one, the box directory does not
\* exist and no VMM subprocess of the box is running.
CleanupOnInitFailure ==
  (pc = "idle" /\ ret.op = "exec" /\ ret.plan = "Starting"
     /\ ret.task \in UNION {get_execution_plan("Starting")[i] : i \in 1..5}) =>
    /\ ~Present(store[ret.b])
    /\ ~Present(cache[ret.b])
    /\ boxes_failed = ret.pre_failed + 1
    /\ ~dir[ret.b]
    /\ \A p \in Pids : proc[p] # ret.b

\* C4 (restart after stop): after stop returned success on an initialized box
\* without auto_remove, the next exec on that box (nothing failing underneath)
\* succeeds through the restart plan, the box is Running again and its COW disk
\* is the one it had.
RestartAfterStop ==
  (pc = "idle" /\ ret.op = "exec" /\ ret.was_stopped /\ ~ret.faulted) =>
    /\ ret.res = "Ok"
    /\ ret.plan = "Stopped"
    /\ cache[ret.b].status = "Running"
    /\ disk[ret.b] # 0
    /\ disk[ret.b] = ret.pre_disk

ActiveRemoveRefused ==
  (pc = "idle" /\ ret.op = "remove" /\ ~ret.force /\ is_active(ret.pre.status)) =>
    /\ ret.res = "InvalidState"
    /\ ~ret.signalled
    /\ cache[ret.b] = ret.pre
    /\ store[ret.b] = ret.prestore

\* a non-forced remove of a Running box with a PID has been refused
ActiveRemoveRefusedWitness ==
  /\ pc = "idle" /\ ret.op = "remove" /\ ~ret.force
  /\ ret.pre.status = "Running" /\ ret.pre.pid # 0 /\ proc[ret.pre.pid] = ret.b
  /\ ret.res = "InvalidState"

\* C7 (name uniqueness): create with a name that a registered box already has
\* fails with InvalidArgument, registers nothing, leaves boxes_created unchanged
\* and leaves the existing box unchanged.
DuplicateNameRefused ==
  (pc = "idle" /\ ret.op = "create" /\ ret.dup # 0) =>
    /\ ret.res = "InvalidArgument"
    /\ Registered = ret.ids
    /\ boxes_created = ret.pre_created
    /\ cache[ret.dup] = ret.pre
    /\ store[ret.dup] = ret.prestore

\* a create with the name of a registered box has returned
DuplicateNameWitness ==
  /\ pc = "idle" /\ ret.op = "create" /\ ret.dup # 0
  /\ Present(cache[ret.dup]) /\ cache[ret.dup].name = "web"

\* C8 (single writer): a second Runtime::new on a home whose lock is held fails
\* with the lock error, runs no recovery and changes nothing that is persisted.
SecondRuntimeRefused ==
  second.res # "none" =>
    /\ second.res = "Internal"
    /\ ~second.recovered
    /\ ~second.changed

\* the second process tried while the first had the lock but had not yet run
\* its recovery, after a host reboot with an active row in the store
SecondRuntimeWitness ==
  /\ pc = "second" /\ second.back = "recover" /\ lock
  /\ bootChanged
  /\ \E b \in BoxIds : is_active(store[b].status)

\* C9 (drop discipline): dropping a handle panics iff stop was never called on
\* that handle and the registry shows the box active.
DropPanicsIffActiveAndUnstopped ==
  (pc = "idle" /\ ret.op = "drop") =>
    (ret.res = "Panic" <=>
       (~ret.stop_called /\ Present(cache[ret.b]) /\ is_active(cache[ret.b].status)))

\* a handle whose stop was called but failed, with the box still active, has
\* been dropped
DropAfterFailedStopWitness ==
  /\ pc = "idle" /\ ret.op = "drop" /\ ret.stop_called
  /\ is_active(cache[ret.b].status)
  /\ ret.res = "Ok"

\* order inside stop: while stop runs on an initialized box the handler has been
\* stopped, the handle's live value is still there, and by the time the live
\* value is about to be cleared the store and the cache show Stopped, no PID
StopOrder ==
  (cur.op = "stop" /\ ~cur.from_stop /\ cur.had_inner # 0) =>
    /\ cur.handler_stopped
    /\ handles[cur.h].inner = cur.had_inner
    /\ (pc = "stop_clear" /\ mgr = NoMgr) =>
         /\ store[cur.b].status = "Stopped" /\ store[cur.b].pid = 0
         /\ cache[cur.b].status = "Stopped" /\ cache[cur.b].pid = 0

\* C10 as stated (stop post-state and order): when stop returns success on an
\* initialized Running box, the handler was stopped before the store was
\* written, the store and the cache show Stopped with the PID unset, the
\* handle's live value is empty, and it was emptied only after the store write.
StopPostState ==
  /\ StopOrder
  /\ (pc = "idle" /\ ret.op = "stop" /\ ret.res = "Ok" /\ ret.had_inner # 0) =>
       /\ ret.handler_stopped
       /\ handles[ret.h].inner = 0
       /\ store[ret.b].status = "Stopped" /\ store[ret.b].pid = 0
       /\ cache[ret.b].status = "Stopped" /\ cache[ret.b].pid = 0

\* C10 amended: as above for a box without auto_remove; with auto_remove the
\* row has been removed from the store and the cache by the time stop returns.
StopPostStateOrRemoved ==
  /\ StopOrder
  /\ (pc = "idle" /\ ret.op = "stop" /\ ret.res = "Ok" /\ ret.had_inner # 0) =>
       /\ ret.handler_stopped
       /\ handles[ret.h].inner = 0
       /\ IF ret.from_stop
          THEN ~Present(store[ret.b]) /\ ~Present(cache[ret.b])
          ELSE /\ store[ret.b].status = "Stopped" /\ store[ret.b].pid = 0
               /\ cache[ret.b].status = "Stopped" /\ cache[ret.b].pid = 0

\* stop has returned success on an initialized box without auto_remove
StopPostStateWitness ==
  /\ pc = "idle" /\ ret.op = "stop" /\ ret.res = "Ok" /\ ret.had_inner # 0
  /\ ~ret.from_stop
  /\ store[ret.b].status = "Stopped"

\* C11 (stop idempotence): stop on a box whose status is already Stopped returns
\* success and changes nothing in the store or in the cache.
StopOnStoppedIsNoOp ==
  (pc = "idle" /\ ret.op = "stop" /\ ret.pre.status = "Stopped") =>
    /\ ret.res = "Ok"
    /\ cache[ret.b] = ret.pre
    /\ store[ret.b] = ret.prestore

\* C12 (store failure during stop): when a store write of stop fails, stop
\* returns the error and the handle's live value has nevertheless been cleared.
StopStoreFailureClearsLive ==
  (pc = "idle" /\ ret.op = "stop" /\ ret.res = "Database" /\ ~ret.from_stop) =>
    handles[ret.h].inner = 0

\* C13 as stated (auto-remove): after stop returned success on a box created
\* with auto_remove, the box has no row in the store or the cache and its
\* directory does not exist.
AutoRemoveAfterStop ==
  (pc = "idle" /\ ret.op = "stop" /\ ret.res = "Ok" /\ ret.pre.auto_remove) =>
    /\ ~Present(store[ret.b])
    /\ ~Present(cache[ret.b])
    /\ ~dir[ret.b]

\* C13 amended: as above, except that the directory may remain when its
\* deletion failed (remove_box only logs that failure).
AutoRemoveAfterStopButUndeletableDir ==
  (pc = "idle" /\ ret.op = "stop" /\ ret.res = "Ok" /\ ret.pre.auto_remove) =>
    /\ ~Present(store[ret.b])
    /\ ~Present(cache[ret.b])
    /\ (dir[ret.b] => ret.dir_failed)

\* stop has returned success on an initialized auto_remove box whose directory
\* existed and is gone
AutoRemoveWitness ==
  /\ pc = "idle" /\ ret.op = "stop" /\ ret.res = "Ok" /\ ret.pre.auto_remove
  /\ ret.had_inner # 0 /\ ret.from_stop
  /\ ~dir[ret.b] /\ ~ret.dir_failed

RebootReconciliation ==
  (pc = "idle" /\ ret.op = "new" /\ ret.rebooted) =>
    \A b \in BoxIds :
      is_active(ret.rows[b].status) =>
        /\ store[b].status = "Stopped" /\ store[b].pid = 0
        /\ cache[b].status = "Stopped" /\ cache[b].pid = 0
        /\ disk[b] = ret.disks[b]

\* Runtime::new has run after a host reboot with a Running box that had a disk
RebootReconciliationWitness ==
  /\ pc = "idle" /\ ret.op = "new" /\ ret.rebooted
  /\ \E b \in BoxIds : /\ ret.rows[b].status = "Running" /\ ret.rows[b].pid # 0
                        /\ ret.disks[b] # 0 /\ disk[b] # 0

\* C16 (container_id stability): a box's container_id is set only once a
\* guest_init has succeeded, and once set it never changes while the box
\* exists, restart and reattach included.
ContainerIdStable ==
  [][\A b \in BoxIds :
       /\ (store[b].cid # 0 /\ Present(store'[b])) => store'[b].cid = store[b].cid
       /\ (cache[b].cid # 0 /\ Present(cache'[b])) => cache'[b].cid = cache[b].cid
       /\ (store[b].cid = 0 /\ store'[b].cid # 0) =>
            (pc = "pipeline" /\ cur.b = b /\ "guest_output" \in cur.slots)]_vars

\* an init of box b has succeeded at some point of its life (its container id
\* was stored, a handle holds its live value, or it was stopped after one)
Initialised(b) ==
  \/ store[b].cid # 0
  \/ cache[b].cid # 0
  \/ stoppedOk[b]
  \/ \E h \in Handles : handles[h].box = b /\ handles[h].inner # 0

\* C17 (COW disk persistence): once a successful init has created a box's
\* root.qcow2, every step leaves that disk in place except the directory
\* deletion of remove; stop, restart, reattach and drop never delete it.
CowDiskPersists ==
  [][\A b \in BoxIds :
       (disk[b] # 0 /\ Initialised(b)) =>
         (disk'[b] = disk[b] \/ pc = "remove_dir")]_vars

\* the "completes before it starts" pairs of the fresh plan
Before ==
  {<<"filesystem_setup", "container_rootfs_prep">>,
   <<"filesystem_setup", "guest_rootfs_init">>,
   <<"container_rootfs_prep", "vmm_spawn">>,
   <<"guest_rootfs_init", "vmm_spawn">>,
   <<"vmm_spawn", "guest_connect">>,
   <<"guest_connect", "guest_init">>}

ReattachOnlyToOwnProcess ==
  (pc = "idle" /\ ret.op = "exec" /\ ret.plan = "reattach" /\ ret.res = "Ok") =>
    ret.b \in ret.same

\* C20 (create is lazy): after a successful Runtime.create, and until the next
\* operation, the box is registered in store and cache with status Starting
\* and no PID, boxes_created has grown by exactly 1, and the box has no
\* directory, no disk and no VMM subprocess.
CreateRegistersOnly ==
  (pc = "idle" /\ mgr = NoMgr /\ ret.op = "create" /\ ret.res = "Ok") =>
    /\ Present(store[ret.b]) /\ Present(cache[ret.b])
    /\ store[ret.b].status = "Starting" /\ store[ret.b].pid = 0
    /\ cache[ret.b].status = "Starting" /\ cache[ret.b].pid = 0
    /\ boxes_created = ret.pre_created + 1
    /\ ~dir[ret.b] /\ disk[ret.b] = 0
    /\ \A p \in Pids : proc[p] # ret.b

\* a create has returned Ok and the handle refers to the new box
CreateRegistersOnlyWitness ==
  /\ pc = "idle" /\ mgr = NoMgr /\ ret.op = "create" /\ ret.res = "Ok"
  /\ ret.b \notin ret.ids /\ handles[ret.h].box = ret.b

\* C21 (remove: row first, directory best-effort): Runtime.remove reaches the
\* deletion of the box directory only with the store row already deleted, and
\* when the directory deletion failed remove has still returned success with
\* the row absent from store and cache.
RemoveRowBeforeDir ==
  /\ (pc = "remove_dir" /\ cur.op = "remove") => ~Present(store[cur.b])
  /\ (pc = "idle" /\ mgr = NoMgr /\ ret.op = "remove" /\ ret.dir_failed) =>
       /\ ret.res = "Ok"
       /\ ~Present(store[ret.b])
       /\ ~Present(cache[ret.b])

\* a remove has returned after its directory deletion failed; the directory is
\* still there
RemoveRowBeforeDirWitness ==
  /\ pc = "idle" /\ mgr = NoMgr /\ ret.op = "remove" /\ ret.dir_failed
  /\ dir[ret.b] /\ ret.res = "Ok"

\* the user port mappings of guest port g, as indices into the list
MappingsOf(g) == {i \in 1..Len(net.ports) : net.ports[i].guest_port = g}

\* C22 (port-map merge): for every guest port g among the image's exposed TCP
\* ports that the user maps exactly once, as host h -> guest g, the final port
\* map has exactly one entry whose guest port is g, and its host port is h.
PortMapUserWins ==
  net.built =>
    \A g \in net.tcp_ports : \A i \in MappingsOf(g) :
      MappingsOf(g) = {i} =>
        {e \in net.map : e[2] = g} = {<<host_port_of(net.ports[i]), g>>}

\* C22 amended: as above, provided no other user mapping uses host port h.
PortMapUserWinsOnOwnHostPort ==
  net.built =>
    \A g \in net.tcp_ports : \A i \in MappingsOf(g) :
      (/\ MappingsOf(g) = {i}
       /\ \A j \in 1..Len(net.ports) :
            j # i => host_port_of(net.ports[j]) # host_port_of(net.ports[i])) =>
        {e \in net.map : e[2] = g} = {<<host_port_of(net.ports[i]), g>>}

\* the image exposes TCP ports 1 and 2, the user maps host 2 -> guest 1 only,
\* and the map has been built
PortMapWitness ==
  /\ net.built /\ net.tcp_ports = {1, 2}
  /\ net.ports = <<[guest_port |-> 1, host_port |-> 2]>>
  /\ net.map = {<<2, 1>>}

\* C23 (refresh_states): only Starting or Running boxes are examined; each such
\* box whose PID is dead or is not this box's own VMM is marked crashed in the
\* store and in the cache, every other box is left unchanged, and the returned
\* list is exactly the set of boxes flipped.
RefreshFlipsDeadOrForeign ==
  reg.done =>
    \A b \in RefreshIds :
      IF /\ is_active(reg.pre[b].status)
         /\ reg.pre[b].pid # 0
         /\ ~alive_and_same(reg.proc, reg.pre[b].pid, b)
      THEN /\ reg.cache[b] = mark_crashed_state(reg.pre[b])
           /\ reg.store[b] = mark_crashed_state(reg.pre[b])
           /\ b \in reg.out
      ELSE /\ reg.cache[b] = reg.pre[b]
           /\ reg.store[b] = reg.pre[b]
           /\ b \notin reg.out

\* C24 (duplicate registration): BoxManager.register with an ID that is already
\* in the registry fails and leaves the cache entry and the store row of that ID
\* unchanged.
DuplicateRegisterRefused ==
  (ret.op = "register" /\ Present(ret.pre)) =>
    /\ ret.res # "Ok"
    /\ mgr = NoMgr
    /\ cache[ret.b] = ret.pre
    /\ store[ret.b] = ret.prestore

\* register was called with the ID of a box that is registered as Running with
\* a PID
DuplicateRegisterWitness ==
  /\ ret.op = "register" /\ ret.res = "Internal"
  /\ ret.pre.status = "Running" /\ ret.pre.pid # 0
  /\ cache[ret.b] = ret.pre

\* C25 (bind mount handle): once a BindMountHandle (native or FUSE) is dropped
\* its target is not mounted; the underlying unmount is performed at most once;
\* the unmount made by the drop that follows an explicit unmount is a no-op
\* success.
UnmountOnceOnDrop ==
  \A i \in DOMAIN mnt :
    /\ mnt[i].umounts <= 1
    /\ mnt[i].handle = "gone" =>
         /\ ~mnt[i].os_mounted
         /\ mnt[i].first # "" => (mnt[i].second = "Ok" /\ mnt[i].umounts = 1)

\* C25 amended: as above, except that the target stays mounted when the one
\* underlying unmount failed (it is not attempted again).
UnmountOnceOnDropUnlessFailed ==
  \A i \in DOMAIN mnt :
    /\ mnt[i].umounts <= 1
    /\ mnt[i].handle = "gone" =>
         /\ mnt[i].umounts = 1
         /\ mnt[i].os_mounted <=> mnt[i].failed
         /\ mnt[i].first # "" => mnt[i].second = "Ok"

\* a FUSE mount was unmounted explicitly and its handle dropped; a native mount
\* was only dropped
UnmountOnceWitness ==
  \E i, j \in DOMAIN mnt :
    /\ mnt[i].kind = "fuse" /\ mnt[i].handle = "gone" /\ mnt[i].first = "Ok"
    /\ mnt[i].second = "Ok" /\ ~mnt[i].os_mounted
    /\ mnt[j].kind = "native" /\ mnt[j].handle = "gone" /\ mnt[j].first = ""
    /\ ~mnt[j].os_mounted

\* C26 (non-absolute home): Runtime::new with a home path that is not absolute
\* fails with InvalidArgument, and when it has returned nothing has been
\* created: the lock is not held.
NonAbsoluteHomeInvalidArgument ==
  (pc = "down" /\ ret.op = "new" /\ ~ret.absolute) =>
    /\ ret.res = "InvalidArgument"
    /\ ~lock

\* C27 (one initialization per box): at any time at most one init pipeline is
\* in progress for the box and at most one spawned VMM subprocess exists,
\* whatever the number of handles and of concurrent callers.
OneInitPerBox ==
  cc # <<>> =>
    /\ Cardinality({c \in DOMAIN cc.th : cc.th[c].pc \in {"building", "spawned"}}) <= 1
    /\ Cardinality(cc.alive) <= 1

\* the callers that have returned success on handle h
Succeeded(h) ==
  {c \in DOMAIN cc.th : cc.th[c].h = h /\ cc.th[c].pc = "done" /\ cc.th[c].res = "Ok"}

\* C28 (double-checked initialization on one handle): with concurrent callers on
\* a handle that has no live value the handle's builder is run at most once,
\* all callers that return success have received the same live value (the one
\* the handle holds), and a caller that found the live value published on
\* entry has not taken the write lock.
DoubleCheckedInit ==
  cc # <<>> =>
    \A h \in DOMAIN cc.inner :
      /\ cc.builds[h] <= 1
      /\ \A c \in Succeeded(h) : cc.th[c].got = cc.inner[h] /\ cc.inner[h] # 0
      /\ \A c \in Succeeded(h) : cc.th[c].fast => ~cc.th[c].wrote

\* two callers entered the write path of the same handle: one ran the builder,
\* the other found the value under the write lock; both hold the same value
DoubleCheckedInitWitness ==
  /\ cc # <<>>
  /\ \E h \in DOMAIN cc.inner : \E c, d \in Succeeded(h) :
       /\ c # d
       /\ cc.th[c].plan # "" /\ cc.th[d].plan = ""
       /\ cc.th[d].wrote /\ ~cc.th[d].fast
       /\ cc.th[c].got = cc.th[d].got

\* C29 (pipeline execution): stages run in list order (a task is started only
\* when every task of every earlier stage has returned Ok); when a task fails
\* execute returns that task's error, no task of a later stage has been
\* started, and in a sequential stage no later task of the same stage has.
ExecuteStopsAtFirstError ==
  pl # <<>> =>
    /\ \A x \in pl.started : \A s \in 1..(x[1] - 1) :
         \A u \in 1..pl.stages[s].n : <<s, u>> \in pl.finished
    /\ pl.res = "Ok" <=>
         \A s \in 1..Len(pl.stages) : \A u \in 1..pl.stages[s].n : <<s, u>> \in pl.finished
    /\ pl.res = "Err" =>
         /\ pl.failed \in pl.started \ pl.finished
         /\ \A x \in pl.started :
              /\ x[1] <= pl.failed[1]
              /\ (pl.stages[pl.failed[1]].mode = "Sequential" /\ x[1] = pl.failed[1]) =>
                   x[2] <= pl.failed[2]

\* the first task of a sequential second stage that has two tasks failed
ExecuteStopsWitness ==
  /\ pl # <<>> /\ pl.res = "Err" /\ pl.failed = <<2, 1>>
  /\ pl.stages[2] = [mode |-> "Sequential", n |-> 2]
  /\ pl.stages[1].mode = "Parallel" /\ <<1, 2>> \in pl.finished

\* C30 (restart failure leaves no orphan): when an operation whose restart plan
\* (builder made for a Stopped box) failed at some task has returned, the VMM
\* subprocess that attempt spawned is not running, and the registry does not
\* show the box Running with that PID.
RestartFailureNoOrphan ==
  (pc = "idle" /\ mgr = NoMgr /\ ret.op = "exec" /\ ret.plan = "Stopped"
     /\ ret.err # "" /\ ret.res = ret.err) =>
    /\ proc[ret.build] # ret.b
    /\ ~(cache[ret.b].status = "Running" /\ cache[ret.b].pid = ret.build)

\* C31 (no stale live value): an operation on a handle returns a live value only
\* for a box that is in the registry with status Running.
NoStaleLiveValue ==
  (pc = "idle" /\ mgr = NoMgr /\ ret.op = "exec" /\ ret.res = "Ok"
     /\ ret.plan = "live") =>
    /\ Present(cache[ret.b])
    /\ cache[ret.b].status = "Running"

\* C32 (Stopped implies restartable): every box whose registry status is Stopped
\* has its root.qcow2 on disk.
StoppedImpliesRestartable ==
  \A b \in BoxIds :
    (Present(cache[b]) /\ cache[b].status = "Stopped") => disk[b] # 0

\* C33 (Running implies attachable): whenever no operation is in progress, every
\* box whose registry status is Running has a PID and a container_id recorded.
RunningImpliesAttachable ==
  (pc = "idle" /\ mgr = NoMgr) =>
    \A b \in BoxIds :
      (Present(cache[b]) /\ cache[b].status = "Running") =>
        (cache[b].pid # 0 /\ cache[b].cid # 0)

\* C34 (vmm_spawn records before guest_connect): when guest_connect is about to
\* start after a vmm_spawn that succeeded in this build, the store and the cache
\* hold the spawned subprocess's PID and status Running.
SpawnRecordedBeforeConnect ==
  (Runnable("guest_connect") /\ Len(cur.hist) > 0
     /\ cur.hist[Len(cur.hist)] = "vmm_spawn") =>
    /\ store[cur.b].pid = cur.build /\ store[cur.b].status = "Running"
    /\ cache[cur.b].pid = cur.build /\ cache[cur.b].status = "Running"

\* C35 (rollback of the cleanup guard): when a build fails with the guard armed,
\* every rollback step is attempted whatever the earlier steps returned (stop if a
\* handler is registered, cleanup if a layout is, mark_crashed, remove), each step
\* that succeeded has had its effect, the caller gets the task's error and
\* boxes_failed has grown by exactly 1; with the guard disarmed no step runs, the
\* row stays and boxes_failed is unchanged.
StepNames(steps) == [i \in DOMAIN steps |-> steps[i][1]]
StepOk(steps, name) == \E i \in DOMAIN steps : steps[i] = <<name, TRUE>>
GuardRollsBackEveryStep ==
  (pc = "idle" /\ ret.op = "exec" /\ ret.task # ""
     /\ ret.plan \in {"Starting", "Stopped"}) =>
    IF ret.armed
    THEN /\ StepNames(ret.rb) =
              (IF ret.handler # 0 THEN <<"stop">> ELSE <<>>)
              \o (IF ret.layout THEN <<"cleanup">> ELSE <<>>)
              \o <<"mark_crashed", "remove">>
         /\ StepOk(ret.rb, "stop") => proc[ret.handler] # ret.b
         /\ StepOk(ret.rb, "cleanup") => ~dir[ret.b]
         /\ StepOk(ret.rb, "remove") =>
              (~Present(store[ret.b]) /\ ~Present(cache[ret.b]))
         /\ ret.res = ret.err /\ ret.err # ""
         /\ boxes_failed = ret.pre_failed + 1
    ELSE /\ ret.rb = <<>>
         /\ Present(store[ret.b]) /\ Present(cache[ret.b])
         /\ boxes_failed = ret.pre_failed

\* a build failed after vmm_spawn, the handler could not be stopped, and the
\* directory and the row were removed all the same
GuardRollsBackWitness ==
  /\ pc = "idle" /\ ret.op = "exec" /\ ret.task # "" /\ ret.armed
  /\ ret.rb = <<<<"stop", FALSE>>, <<"cleanup", TRUE>>, <<"mark_crashed", TRUE>>,
                <<"remove", TRUE>>>>

\* C36 (contract error on an empty input slot): container_rootfs_prep or vmm_spawn
\* run without fs_output, vmm_spawn without rootfs_output or guest_rootfs_output,
\* guest_init without guest_session, config_output or container_config, fails
\* with Internal and spawns no process, creates no disk or directory and writes
\* nothing to the registry.
MissingInput(task, slots) ==
  \/ task \in {"container_rootfs_prep", "vmm_spawn"} /\ "fs_output" \notin slots
  \/ task = "vmm_spawn" /\ {"rootfs_output", "guest_rootfs_output"} \ slots # {}
  \/ task = "guest_init"
       /\ {"guest_session", "config_output", "container_config"} \ slots # {}
\* the step is a run of the task: it went on, or it failed
Ran(task) ==
  /\ Runnable(task)
  /\ \/ pc' = "spawn_pid" /\ task = "vmm_spawn"
     \/ pc' = "pipeline" /\ cur'.hist = Append(cur.hist, task)
     \/ pc' = "guard_drop" /\ cur'.task = task
     \/ pc' = "idle" /\ ret'.task = task
FailedMutationsAtomic ==
  (ret.op \in {"register", "update_status", "update_pid", "update_container_id",
               "mark_crashed", "remove"}
     /\ ret.res \notin {"", "Ok"}) =>
    /\ store[ret.b] = ret.prestore
    /\ cache[ret.b] = ret.pre

\* C39 (names stay unique under concurrent create): whatever the interleaving of
\* the create calls, no two boxes of the registry cache have the same name.
NoTwoBoxesSameName ==
  cr # <<>> =>
    \A a, b \in DOMAIN cr.cache :
      (a # b /\ Present(cr.cache[a]) /\ Present(cr.cache[b])
         /\ cr.cache[a].name # "") => cr.cache[a].name # cr.cache[b].name

\* two calls with the same name both passed the name check; one registered its
\* box and the other was refused by the store
ConcurrentCreateWitness ==
  /\ cr # <<>>
  /\ \E t, u \in Creators :
       /\ cr.th[t].name = "web" /\ cr.th[u].name = "web"
       /\ cr.th[t].res = "Ok" /\ cr.th[u].res = "Database"
       /\ cr.th[u].id # 0

\* C40 (force remove is atomic): when Runtime.remove(id, force = true) has
\* returned, either it succeeded, the row is gone and no VMM subprocess of the box
\* is alive, or it failed without having killed the process.
ForceRemoveAtomic ==
  (pc = "idle" /\ mgr = NoMgr /\ ret.op = "remove" /\ ret.force
     /\ ret.res # "NotFound") =>
    IF ret.res = "Ok"
    THEN /\ ~Present(store[ret.b]) /\ ~Present(cache[ret.b])
         /\ \A p \in Pids : proc[p] # ret.b
    ELSE ~ret.signalled

====
